---- MODULE Spec2Model ----
(***************************************************************************)
(* A model of the contactless-sensor data logger (datalogger.py): the two  *)
(* source adapter threads (read_stream_to_queue), the coordinator's main   *)
(* loop and its start-up and shutdown, the worker process and the serial   *)
(* device.                                                                 *)
(*                                                                         *)
(* Text is modelled as a sequence of one-character strings.  A line is     *)
(* given without its terminating newline (strip() removes it anyway).      *)
(***************************************************************************)
EXTENDS Integers, Sequences, FiniteSets, TLC

\* ------------------------------------------------------------------ bounds

\* Lines read by the two adapters together in one run.
MaxReads == 3

\* Longest line drawn for the adapter's parsing specification.
MaxLineLen == 3

\* ------------------------------------------------------------- the alphabet

\* A byte that is not valid in the pipe's text encoding.
InvalidByte == "~"

Digits == {"1"}

Whitespace == {" "}

Chars == Digits \cup Whitespace \cup {".", ",", "-", "x", InvalidByte}

RECURSIVE LinesOfLen(_)
LinesOfLen(n) ==
    IF n = 0 THEN {<<>>}
    ELSE {Append(s, c) : s \in LinesOfLen(n - 1), c \in Chars}

AllLines == UNION {LinesOfLen(n) : n \in 0..MaxLineLen}

\* The lines the adapters read in the whole-program specification: a bare
\* value, a value behind an identifier and a comma, text that is no number,
\* and a line holding an invalid byte.
Lines == { <<"1">>, <<"x", ",", "1">>, <<"x">>, <<InvalidByte, "1">> }

\* ------------------------------------------------------------ str methods

RECURSIVE LStrip(_)
LStrip(s) ==
    IF s # <<>> /\ Head(s) \in Whitespace THEN LStrip(Tail(s)) ELSE s

RECURSIVE RStrip(_)
RStrip(s) ==
    IF s # <<>> /\ s[Len(s)] \in Whitespace
    THEN RStrip(SubSeq(s, 1, Len(s) - 1))
    ELSE s

\* str.strip()
Strip(s) == RStrip(LStrip(s))

\* str.split(sep): the parts between the separators, at least one part.
RECURSIVE Split(_, _)
Split(s, sep) ==
    IF \A i \in 1..Len(s) : s[i] # sep
    THEN <<s>>
    ELSE LET i == CHOOSE k \in 1..Len(s) :
                      s[k] = sep /\ \A j \in 1..(k - 1) : s[j] # sep
         IN  <<SubSeq(s, 1, i - 1)>> \o Split(SubSeq(s, i + 1, Len(s)), sep)

\* bytes.decode(errors='ignore'): the invalid bytes are dropped.
RECURSIVE DecodeIgnore(_)
DecodeIgnore(b) ==
    IF b = <<>> THEN <<>>
    ELSE IF Head(b) = InvalidByte THEN DecodeIgnore(Tail(b))
    ELSE <<Head(b)>> \o DecodeIgnore(Tail(b))

\* The text-mode pipe (Popen(text=True), error handler 'strict'): readline
\* raises UnicodeDecodeError on an invalid byte.
DecodeStrictRaises(b) == \E i \in 1..Len(b) : b[i] = InvalidByte

\* ------------------------------------------------------------------ float()

RECURSIVE Pow10(_)
Pow10(n) == IF n = 0 THEN 1 ELSE 10 * Pow10(n - 1)

RECURSIVE DigitsToNat(_)
DigitsToNat(d) ==
    IF d = <<>> THEN 0
    ELSE 10 * DigitsToNat(SubSeq(d, 1, Len(d) - 1)) + 1

\* Values are fixed-point integers, in units of 10^-FracDigits.
FracDigits == MaxLineLen + 2

Unsigned(t) == IF t # <<>> /\ Head(t) = "-" THEN Tail(t) ELSE t

\* float(s) raises ValueError: after stripping white space and one sign, s is
\* not digits with at most one decimal point and at least one digit.
FloatRaises(s) ==
    LET u == Unsigned(Strip(s))
    IN  \/ \E i \in 1..Len(u) : u[i] \notin Digits \cup {"."}
        \/ Cardinality({i \in 1..Len(u) : u[i] = "."}) > 1
        \/ \A i \in 1..Len(u) : u[i] \notin Digits

\* float(s), for a string on which it does not raise.
PyFloat(s) ==
    LET t == Strip(s)
        u == Unsigned(t)
        parts == Split(u, ".")
        ip == parts[1]
        fp == IF Len(parts) > 1 THEN parts[2] ELSE <<>>
        mag == DigitsToNat(ip) * Pow10(FracDigits)
               + DigitsToNat(fp) * Pow10(FracDigits - Len(fp))
    IN  IF t # u THEN 0 - mag ELSE mag

\* ------------------------------------------------------------------- state

vision_sensor == "vision_sensor"

ground_truth_serial == "ground_truth_serial"

\* stream_type: the two sources, each with its adapter thread and its queue.
Sources == {vision_sensor, ground_truth_serial}

Other(src) == IF src = vision_sensor THEN ground_truth_serial ELSE vision_sensor

VARIABLES
    pc,                 \* the main thread's position in main()
    plot,               \* args.plot
    vision_process,     \* "None", or the worker's state once spawned
    ser,                \* "None", "open" or "closed"
    thread,             \* per source: the adapter thread's state
    reads,              \* history: per source, lines its adapter has read
    queue_obj,          \* per source: the queue.Queue, oldest sample first; a
                        \* sample is its value and, as history, its arrival number
    csvfile,            \* "None", "open" or "closed"
    log,                \* the rows handed to writer.writerow, in order
    on_disk,            \* how much of the text handed to the writer is on disk
    new_data_received,  \* the flag of the same name
    unwinding,          \* an exception is propagating through the finally block
    exitReason,         \* history: how the try block was left
    events,             \* history: the release steps taken, in order
    inLine,             \* the line fed to the adapter in the parsing specification
    \* calibrate_speed.py (the calibration command)
    cal_pc,             \* its position in main(), "idle" while the logger is modelled
    cal_error,          \* the exception that left main(), or "none"
    side,               \* args.side
    warm_up,            \* ground-truth rows of the log that precede raw_data
    raw_data,           \* the rest of the log's rows, in file order
    vision_interpolated,\* first value returned by load_and_prepare_data
    ground_truth,       \* second value returned by load_and_prepare_data
    k,                  \* the solved scale constant
    fs,                 \* the sample rate of line 159
    errors,             \* the RMSE the filter yields for each grid pair
    best_params,        \* the dictionary of optimise_filter_parameters
    accepted_optimised_params,
    config,             \* the dictionary loaded from config.json
    config_json,        \* config.json on disk
    answers,            \* history: what the user typed at each prompt
    \* datalogger.py: time and the live display in the main loop
    clock,              \* what time.time() returns now, in fifths of a second
    utcoffset,          \* the local zone's offset from UTC, in fifths of a second
    last_plot_time,     \* the variable of the same name
    vision_data,        \* the deque of the same name, "None" without --plot
    serial_data,        \* the deque of the same name, "None" without --plot
    drained_before,     \* history: samples of each source drained before the first row of log
    refreshes,          \* history: the redraws of the display, in order
    stderr_thread,      \* the state of the thread running print_stream_errors
    printed,            \* history: how many lines print_stream_errors has printed
    \* calibrate_speed.py: analyse_frequencies
    dataframes,         \* its first argument
    analyses,           \* the list of the same name when the loop of line 22 is done
    \* src/main.py: the vision worker
    worker_pc,          \* where main() is
    worker_error,       \* how the worker process ended, "None" while it runs
    argv,               \* the arguments after "src.main" on its command line
    args,               \* the namespace parse_args returns
    worker_config,      \* the dictionary main() loads from config.json
    sos,                \* the filter of the same name
    frame_angles,       \* history: the angle obtained in each frame read, or "None"
    stdout,             \* history: the frames for which a value was printed
    \* src/calculation.py: calculate_angle
    pivot_center,       \* its first argument
    moving_center,      \* its second argument
    angle_degrees,      \* what it returned, in thousandths of a degree
    \* src/detection.py: find_ball
    in_range,           \* the pixels of its image that lie within its HSV range
    found               \* history: the values it returned

\* The state of the calibration command.
calVars == <<cal_pc, cal_error, side, warm_up, raw_data, vision_interpolated,
             ground_truth, k, fs, errors, best_params,
             accepted_optimised_params, config, config_json, answers>>

\* The state of the data logger.
logVars == <<pc, plot, vision_process, ser, thread, reads, queue_obj, csvfile,
             log, on_disk, new_data_received, unwinding, exitReason, events,
             inLine>>

\* Time and the live display in the data logger's main loop.
loopVars == <<clock, utcoffset, last_plot_time, vision_data,
              serial_data, drained_before, refreshes, stderr_thread, printed>>

\* The state that only the later specifications move.
\* The state of a call of analyse_frequencies.
spectrumVars == <<dataframes, analyses>>

\* The state of the vision worker.
workerVars == <<worker_pc, worker_error, argv, args, worker_config, sos,
                frame_angles, stdout>>

\* The state of a call of calculate_angle.
angleVars == <<pivot_center, moving_center, angle_degrees>>

\* The state of a call of find_ball.
detectVars == <<in_range, found>>

\* The state of the worker and of the functions that are modelled on their own.
callVars == <<spectrumVars, workerVars, angleVars, detectVars>>

restVars == <<loopVars, callVars>>

vars == <<logVars, calVars, restVars>>

\* The calibration command is not running.
CalIdle ==
    /\ cal_pc = "idle"
    /\ cal_error = "none"
    /\ side = "left"
    /\ warm_up = 0
    /\ raw_data = <<>>
    /\ vision_interpolated = <<>>
    /\ ground_truth = <<>>
    /\ k = <<>>
    /\ fs = <<>>
    /\ errors = <<>>
    /\ best_params = <<>>
    /\ accepted_optimised_params = <<>>
    /\ config = <<>>
    /\ config_json = <<>>
    /\ answers = <<>>

\* Time and the display are not modelled.
LoopIdle ==
    /\ clock = 0
    /\ utcoffset = 0
    /\ last_plot_time = 0
    /\ vision_data = "None"
    /\ serial_data = "None"
    /\ drained_before = 0
    /\ refreshes = <<>>
    /\ stderr_thread = "not_started"
    /\ printed = 0

\* analyse_frequencies is not called.
SpectrumIdle == dataframes = <<>> /\ analyses = <<>>

WorkerIdle ==
    /\ worker_pc = "not_started"
    /\ worker_error = "None"
    /\ argv = <<>>
    /\ args = "None"
    /\ worker_config = <<>>
    /\ sos = "None"
    /\ frame_angles = <<>>
    /\ stdout = <<>>

AngleIdle == pivot_center = <<>> /\ moving_center = <<>> /\ angle_degrees = <<>>

DetectIdle == in_range = {} /\ found = <<>>

CallIdle == SpectrumIdle /\ WorkerIdle /\ AngleIdle /\ DetectIdle

RestIdle == LoopIdle /\ CallIdle

LoopPcs == {"poll_vision", "poll_serial", "plot", "check_worker"}

\* Positions inside the try block (lines 115-246).
TryPcs == {"spawn", "settle", "open_serial", "start_threads", "open_log"}
          \cup LoopPcs

HandlerPcs == {"except_ki", "except_exc"}

FinallyPcs == {"fin_plot", "fin_term", "fin_wait", "fin_ser", "fin_print"}

\* main() has been left: by return, or by an exception leaving it.
ExitPcs == {"returned", "raised"}

\* The state at the try statement of main(), for either value of --plot.
Init ==
    /\ pc = "spawn"
    /\ plot \in BOOLEAN
    /\ vision_process = "None"
    /\ ser = "None"
    /\ thread = [s \in Sources |-> "not_started"]
    /\ reads = [s \in Sources |-> 0]
    /\ queue_obj = [s \in Sources |-> <<>>]
    /\ csvfile = "None"
    /\ log = <<>>
    /\ on_disk = "none"
    /\ new_data_received = FALSE
    /\ unwinding = FALSE
    /\ exitReason = "none"
    /\ events = <<>>
    /\ inLine = <<>>
    /\ CalIdle
    /\ RestIdle

\* ------------------------------------------------- read_stream_to_queue

\* A faulty variant of AdapterPuts: the first field is parsed, not the last.
AdapterPutsFirstField(line_str) ==
    IF line_str = <<>> THEN <<>>
    ELSE LET parts == Split(line_str, ",")
             value_str == parts[1]
         IN  IF FloatRaises(value_str) THEN <<>> ELSE <<PyFloat(value_str)>>

\* Lines 57-65: what one iteration puts on the queue for the text line_str.
AdapterPuts(line_str) ==
    IF line_str = <<>> THEN <<>>
    ELSE LET parts == Split(line_str, ",")
             value_str == parts[Len(parts)]
         IN  IF FloatRaises(value_str) THEN <<>> ELSE <<PyFloat(value_str)>>

\* Lines 47-55: the text of the line read, per variant.
LineStr(src, line) ==
    IF src = ground_truth_serial THEN Strip(DecodeIgnore(line)) ELSE Strip(line)

\* Lines read so far by both adapters.
Arrivals == reads[vision_sensor] + reads[ground_truth_serial]

\* The adapter's thread ends (its loop is left, or an exception leaves it).
ThreadEnds(src, how) == thread' = [thread EXCEPT ![src] = how]

AdapterFrame ==
    UNCHANGED <<pc, plot, vision_process, ser, csvfile, log, on_disk,
                new_data_received, unwinding, exitReason, events, inLine,
                calVars, restVars>>

\* One iteration of the loop at line 45 that reads `line`.  In the pipe variant
\* readline is called by the iterator, outside the try of line 46: its
\* UnicodeDecodeError leaves read_stream_to_queue and ends the thread.
AdapterStep(src, line) ==
    /\ thread[src] = "running"
    /\ pc \notin ExitPcs
    /\ Arrivals < MaxReads
    /\ src = ground_truth_serial => ser = "open"
    /\ src = vision_sensor => vision_process \in {"running", "signalled", "exited", "reaped"}
    /\ reads' = [reads EXCEPT ![src] = @ + 1]
    /\ IF src = vision_sensor /\ DecodeStrictRaises(line)
       THEN /\ ThreadEnds(src, "crashed")
            /\ UNCHANGED queue_obj
       ELSE /\ queue_obj' = [queue_obj EXCEPT ![src] =
                  @ \o [i \in 1..Len(AdapterPuts(LineStr(src, line))) |->
                          [id |-> Arrivals + 1,
                           value |-> AdapterPuts(LineStr(src, line))[i]]]]
            /\ UNCHANGED thread
    /\ AdapterFrame

\* Line 43: readline() returns '' at the end of the worker's output.
VisionEOF ==
    /\ thread[vision_sensor] = "running"
    /\ pc \notin ExitPcs
    /\ vision_process \in {"exited", "reaped"}
    /\ ThreadEnds(vision_sensor, "finished")
    /\ UNCHANGED <<reads, queue_obj>>
    /\ AdapterFrame

\* Lines 48-52: a read that times out returns no bytes; the loop is left only
\* when the port is no longer open.
SerialTimeout ==
    /\ thread[ground_truth_serial] = "running"
    /\ pc \notin ExitPcs
    /\ IF ser # "open"
       THEN ThreadEnds(ground_truth_serial, "finished")
       ELSE UNCHANGED thread
    /\ UNCHANGED <<reads, queue_obj>>
    /\ AdapterFrame

\* Lines 66-69: the serial read raises (the device is gone); the exception is
\* caught and the loop is left.
SerialReadError ==
    /\ thread[ground_truth_serial] = "running"
    /\ pc \notin ExitPcs
    /\ ThreadEnds(ground_truth_serial, "finished")
    /\ UNCHANGED <<reads, queue_obj>>
    /\ AdapterFrame

\* ------------------------------------------------------ the worker process

\* The worker ends: by itself, killed, or on the SIGTERM of terminate().
WorkerExit ==
    /\ vision_process \in {"running", "signalled"}
    /\ pc \notin ExitPcs
    /\ vision_process' = "exited"
    /\ UNCHANGED <<pc, plot, ser, thread, reads, queue_obj, csvfile, log,
                   on_disk, new_data_received, unwinding, exitReason, events,
                   inLine, calVars, restVars>>

\* ------------------------------------------------------------ main(): start

\* The main thread moves alone: the adapters' state stays.
MainFrame == UNCHANGED <<plot, reads, inLine, calVars, restVars>>

\* Lines 126-132: subprocess.Popen returns the running worker.
Spawn ==
    /\ pc = "spawn"
    /\ pc' = "settle"
    /\ vision_process' = "running"
    /\ UNCHANGED <<ser, thread, queue_obj, csvfile, log, on_disk,
                   new_data_received, unwinding, exitReason, events>>
    /\ MainFrame

\* Lines 126-132: Popen raises (no interpreter, no memory): no worker exists.
SpawnFail ==
    /\ pc = "spawn"
    /\ pc' = "except_exc"
    /\ exitReason' = "exception"
    /\ UNCHANGED <<vision_process, ser, thread, queue_obj, csvfile, log, on_disk,
                   new_data_received, unwinding, events>>
    /\ MainFrame

\* Lines 134-135: the settle period.
Settle ==
    /\ pc = "settle"
    /\ pc' = "open_serial"
    /\ UNCHANGED <<vision_process, ser, thread, queue_obj, csvfile, log, on_disk,
                   new_data_received, unwinding, exitReason, events>>
    /\ MainFrame

\* Lines 138-141: the serial device opens.
OpenSerial ==
    /\ pc = "open_serial"
    /\ pc' = "start_threads"
    /\ ser' = "open"
    /\ UNCHANGED <<vision_process, thread, queue_obj, csvfile, log, on_disk,
                   new_data_received, unwinding, exitReason, events>>
    /\ MainFrame

\* A faulty variant of OpenSerialFail: the handler does not return.
OpenSerialFailNoReturn ==
    /\ pc = "open_serial"
    /\ pc' = "start_threads"
    /\ exitReason' = "serial_fail"
    /\ events' = IF plot THEN Append(events, "close_display") ELSE events
    /\ UNCHANGED <<vision_process, ser, thread, queue_obj, csvfile, log, on_disk,
                   new_data_received, unwinding>>
    /\ MainFrame

\* Lines 142-146: serial.Serial raises SerialException: the display is closed
\* and main() returns, through the finally block.
OpenSerialFail ==
    /\ pc = "open_serial"
    /\ pc' = "fin_plot"
    /\ exitReason' = "serial_fail"
    /\ events' = IF plot THEN Append(events, "close_display") ELSE events
    /\ UNCHANGED <<vision_process, ser, thread, queue_obj, csvfile, log, on_disk,
                   new_data_received, unwinding>>
    /\ MainFrame

\* Lines 148-170: the queues are created and the threads started.
StartThreads ==
    /\ pc = "start_threads"
    /\ pc' = "open_log"
    /\ thread' = [s \in Sources |-> "running"]
    /\ queue_obj' = [s \in Sources |-> <<>>]
    /\ UNCHANGED <<vision_process, ser, csvfile, log, on_disk,
                   new_data_received, unwinding, exitReason, events>>
    /\ MainFrame

\* Lines 172-178: the log is opened and the header handed to the writer.
OpenLog ==
    /\ pc = "open_log"
    /\ pc' = "poll_vision"
    /\ csvfile' = "open"
    /\ log' = <<>>
    /\ on_disk' = "whole"
    /\ new_data_received' = FALSE
    /\ UNCHANGED <<vision_process, ser, thread, queue_obj, unwinding,
                   exitReason, events>>
    /\ MainFrame

\* --------------------------------------------------------- main(): the loop

\* The file is buffered.  Of the header and rows handed to the writer, the
\* disk holds a prefix: "all" of it, "whole" records but not all of them, or
\* a "part" that ends inside a record.
DiskStates == {"all", "whole", "part"}

\* A faulty variant of GetNowait: the sample is read and left on the queue.
GetNowaitPeek(q) == q

\* queue.get_nowait(): what stays on the queue.
GetNowait(q) == Tail(q)

\* Lines 185-189 and 200-204: the row written for a sample.
LogRow(src, sample) ==
    [source |-> src, id |-> sample.id, measurement |-> sample.value]

\* A faulty variant of Poll: a source is drained only while the other source's
\* queue is empty.
PollUnlessOtherWaiting(src, next) ==
    /\ pc' = next
    /\ IF queue_obj[src] = <<>> \/ queue_obj[Other(src)] # <<>>
       THEN UNCHANGED <<queue_obj, log, on_disk, new_data_received>>
       ELSE /\ queue_obj' = [queue_obj EXCEPT ![src] = Tail(@)]
            /\ log' = Append(log, [source |-> src,
                                   id |-> Head(queue_obj[src]).id,
                                   measurement |-> Head(queue_obj[src]).value])
            /\ on_disk' \in DiskStates
            /\ new_data_received' = (plot \/ new_data_received)
    /\ UNCHANGED <<vision_process, ser, thread, csvfile, unwinding,
                   exitReason, events>>
    /\ MainFrame

\* Lines 182-194 and 196-209: one non-blocking poll of a source's queue.  A
\* write may spill any part of the buffered text to disk.
Poll(src, next) ==
    /\ pc' = next
    /\ IF queue_obj[src] = <<>>
       THEN UNCHANGED <<queue_obj, log, on_disk, new_data_received>>
       ELSE /\ queue_obj' = [queue_obj EXCEPT ![src] = GetNowait(@)]
            /\ log' = Append(log, LogRow(src, Head(queue_obj[src])))
            /\ on_disk' \in DiskStates
            /\ new_data_received' = (plot \/ new_data_received)
    /\ UNCHANGED <<vision_process, ser, thread, csvfile, unwinding,
                   exitReason, events>>
    /\ MainFrame

PollVision ==
    /\ pc = "poll_vision"
    /\ Poll(vision_sensor, "poll_serial")

PollSerial ==
    /\ pc = "poll_serial"
    /\ Poll(ground_truth_serial, "plot")

\* Lines 212-239: the throttled refresh of the display.
PlotStep ==
    /\ pc = "plot"
    /\ pc' = "check_worker"
    /\ \E elapsed \in BOOLEAN :
         new_data_received' =
            IF plot /\ new_data_received /\ elapsed THEN FALSE
            ELSE new_data_received
    /\ UNCHANGED <<vision_process, ser, thread, queue_obj, csvfile, log, on_disk,
                   unwinding, exitReason, events>>
    /\ MainFrame

\* A faulty variant of CloseLog: the file is left open and unflushed.
CloseLogLeak == UNCHANGED <<csvfile, on_disk, events>>

\* Leaving the with block of line 172: the file is flushed and closed.
CloseLog ==
    IF csvfile = "open"
    THEN /\ csvfile' = "closed"
         /\ on_disk' = "all"
         /\ events' = Append(events, "close_log")
    ELSE UNCHANGED <<csvfile, on_disk, events>>

\* A faulty variant of CheckWorker: the loop is also left when an adapter
\* thread has ended.
CheckWorkerAndThreads ==
    /\ pc = "check_worker"
    /\ IF \/ vision_process = "exited"
          \/ \E src \in Sources : thread[src] \in {"finished", "crashed"}
       THEN /\ vision_process' =
                  IF vision_process = "exited" THEN "reaped" ELSE vision_process
            /\ pc' = "fin_plot"
            /\ exitReason' = "worker_exit"
            /\ CloseLog
       ELSE /\ pc' = "poll_vision"
            /\ UNCHANGED <<vision_process, exitReason, csvfile, on_disk, events>>
    /\ UNCHANGED <<ser, thread, queue_obj, log, new_data_received, unwinding>>
    /\ MainFrame

\* Lines 241-246: poll() finds the worker ended and the loop is left; or the
\* loop sleeps and goes round.
CheckWorker ==
    /\ pc = "check_worker"
    /\ IF vision_process = "exited"
       THEN /\ vision_process' = "reaped"
            /\ pc' = "fin_plot"
            /\ exitReason' = "worker_exit"
            /\ CloseLog
       ELSE /\ pc' = "poll_vision"
            /\ UNCHANGED <<vision_process, exitReason, csvfile, on_disk, events>>
    /\ UNCHANGED <<ser, thread, queue_obj, log, new_data_received, unwinding>>
    /\ MainFrame

\* ------------------------------------------- main(): exceptions and finally

\* Lines 250-251: an exception other than KeyboardInterrupt raised in the try
\* block (the log cannot be opened, a write or a redraw fails).
MainException ==
    /\ pc \in {"open_log", "poll_vision", "poll_serial", "plot"}
    /\ pc' = "except_exc"
    /\ exitReason' = "exception"
    /\ CloseLog
    /\ UNCHANGED <<vision_process, ser, thread, queue_obj, log,
                   new_data_received, unwinding>>
    /\ MainFrame

\* KeyboardInterrupt, delivered to the main thread wherever it is: in the try
\* block it is caught at line 248; in a handler it propagates through the
\* finally block; in the finally block it leaves main() at once.
Interrupt ==
    /\ pc \in TryPcs \cup HandlerPcs \cup FinallyPcs
    /\ IF pc \in TryPcs
       THEN /\ pc' = "except_ki"
            /\ exitReason' = "interrupt"
            /\ CloseLog
            /\ UNCHANGED unwinding
       ELSE IF pc \in HandlerPcs
       THEN /\ pc' = "fin_plot"
            /\ unwinding' = TRUE
            /\ UNCHANGED <<exitReason, csvfile, on_disk, events>>
       ELSE /\ pc' = "raised"
            /\ UNCHANGED <<unwinding, exitReason, csvfile, on_disk, events>>
    /\ UNCHANGED <<vision_process, ser, thread, queue_obj, log, new_data_received>>
    /\ MainFrame

\* Lines 249 and 251: the handler prints and falls into the finally block.
Handler ==
    /\ pc \in HandlerPcs
    /\ pc' = "fin_plot"
    /\ UNCHANGED <<vision_process, ser, thread, queue_obj, csvfile, log, on_disk,
                   new_data_received, unwinding, exitReason, events>>
    /\ MainFrame

\* A faulty variant of FinPlot: the display is not closed.
FinPlotNoClose ==
    /\ pc = "fin_plot"
    /\ pc' = "fin_term"
    /\ UNCHANGED <<vision_process, ser, thread, queue_obj, csvfile, log, on_disk,
                   new_data_received, unwinding, exitReason, events>>
    /\ MainFrame

\* Lines 253-254: the display is closed.
FinPlot ==
    /\ pc = "fin_plot"
    /\ pc' = "fin_term"
    /\ events' = IF plot THEN Append(events, "close_display") ELSE events
    /\ UNCHANGED <<vision_process, ser, thread, queue_obj, csvfile, log, on_disk,
                   new_data_received, unwinding, exitReason>>
    /\ MainFrame

\* Lines 255-257: terminate() signals the worker, if one was spawned and has
\* not been found ended.
FinTerminate ==
    /\ pc = "fin_term"
    /\ IF vision_process = "None"
       THEN /\ pc' = "fin_ser"
            /\ UNCHANGED <<vision_process, events>>
       ELSE /\ pc' = "fin_wait"
            /\ vision_process' =
                  IF vision_process = "running" THEN "signalled" ELSE vision_process
            /\ events' = Append(events, "terminate")
    /\ UNCHANGED <<ser, thread, queue_obj, csvfile, log, on_disk,
                   new_data_received, unwinding, exitReason>>
    /\ MainFrame

\* Line 258: wait() returns once the worker has ended.
FinWait ==
    /\ pc = "fin_wait"
    /\ vision_process \in {"exited", "reaped"}
    /\ pc' = "fin_ser"
    /\ vision_process' = "reaped"
    /\ events' = Append(events, "wait")
    /\ UNCHANGED <<ser, thread, queue_obj, csvfile, log, on_disk,
                   new_data_received, unwinding, exitReason>>
    /\ MainFrame

\* Lines 259-261: the serial device is closed if it is open.
FinSerial ==
    /\ pc = "fin_ser"
    /\ pc' = "fin_print"
    /\ IF ser = "open"
       THEN /\ ser' = "closed"
            /\ events' = Append(events, "close_serial")
       ELSE UNCHANGED <<ser, events>>
    /\ UNCHANGED <<vision_process, thread, queue_obj, csvfile, log, on_disk,
                   new_data_received, unwinding, exitReason>>
    /\ MainFrame

\* Line 262: main() returns, or the exception that was propagating leaves it.
FinPrint ==
    /\ pc = "fin_print"
    /\ pc' = IF unwinding THEN "raised" ELSE "returned"
    /\ UNCHANGED <<vision_process, ser, thread, queue_obj, csvfile, log, on_disk,
                   new_data_received, unwinding, exitReason, events>>
    /\ MainFrame

\* --------------------------------------------------------- specifications

Next ==
    \/ \E src \in Sources, line \in Lines : AdapterStep(src, line)
    \/ VisionEOF
    \/ SerialTimeout
    \/ SerialReadError
    \/ WorkerExit
    \/ Spawn
    \/ SpawnFail
    \/ Settle
    \/ OpenSerial
    \/ OpenSerialFail
    \/ StartThreads
    \/ OpenLog
    \/ PollVision
    \/ PollSerial
    \/ PlotStep
    \/ CheckWorker
    \/ MainException
    \/ Interrupt
    \/ Handler
    \/ FinPlot
    \/ FinTerminate
    \/ FinWait
    \/ FinSerial
    \/ FinPrint

\* The whole data logger.
Spec == Init /\ [][Next]_vars

\* The adapters alone, in the main loop of a run, each reading the line inLine
\* again and again: inLine is any text of at most MaxLineLen characters.
InitAdapter ==
    /\ pc = "poll_vision"
    /\ plot = FALSE
    /\ vision_process = "running"
    /\ ser = "open"
    /\ thread = [s \in Sources |-> "running"]
    /\ reads = [s \in Sources |-> 0]
    /\ queue_obj = [s \in Sources |-> <<>>]
    /\ csvfile = "open"
    /\ log = <<>>
    /\ on_disk = "whole"
    /\ new_data_received = FALSE
    /\ unwinding = FALSE
    /\ exitReason = "none"
    /\ events = <<>>
    /\ inLine \in AllLines
    /\ CalIdle
    /\ RestIdle

NextAdapter == \E src \in Sources : AdapterStep(src, inLine)

SpecAdapter == InitAdapter /\ [][NextAdapter]_vars

\* ------------------------------------------------------------------ claims

\* The text after the last comma of the stripped line (all of it when it holds
\* no comma).
AfterLastComma(line_str) ==
    LET t == Strip(line_str)
        commas == {i \in 1..Len(t) : t[i] = ","}
        last == IF commas = {} THEN 0
                ELSE CHOOSE i \in commas : \A j \in commas : j <= i
    IN  SubSeq(t, last + 1, Len(t))

\* The values src's adapter has put on its queue, oldest first.
ValuesPut(src) == [i \in 1..Len(queue_obj[src]) |-> queue_obj[src][i].value]

\* The text the variant reads for the line: the serial variant drops the
\* invalid bytes.
TextRead(src) ==
    IF src = ground_truth_serial THEN DecodeIgnore(inLine) ELSE inLine

\* C1: for every line an adapter reads (either variant), if the text after the
\* last comma of the stripped line parses as a float, exactly one value equal
\* to that float is put on its queue; otherwise nothing is put, and the
\* adapter goes on to the next line.  (A k-fold reading of the same line puts
\* k values, or none.)
C1_EnqueuesExactlyParsed ==
    \A src \in Sources :
        thread[src] = "running" =>
            LET field == AfterLastComma(TextRead(src))
            IN  ValuesPut(src) =
                    IF FloatRaises(field) THEN <<>>
                    ELSE [i \in 1..reads[src] |-> PyFloat(field)]

\* C1's case: the serial adapter has read "x,1" and put the one value 1.0, and
\* the pipe adapter has read it too.
C1_Witness ==
    /\ inLine = <<"x", ",", "1">>
    /\ reads[ground_truth_serial] = 1
    /\ ValuesPut(ground_truth_serial) = <<Pow10(FracDigits)>>
    /\ reads[vision_sensor] = 1
    /\ ValuesPut(vision_sensor) = <<Pow10(FracDigits)>>

\* The rows of the log that come from src, in row order.
RowsOf(src) == SelectSeq(log, LAMBDA r : r.source = src)

\* The arrival numbers of a sequence of samples or rows.
IdsOf(seq) == {seq[i].id : i \in 1..Len(seq)}

\* C2: each sample put on a source queue produces at most one row of the log:
\* no two rows are of the same sample, and no sample that has a row is still
\* on a queue.
C2_AtMostOneRowPerSample ==
    /\ \A i, j \in 1..Len(log) : log[i].id = log[j].id => i = j
    /\ \A src \in Sources : IdsOf(log) \cap IdsOf(queue_obj[src]) = {}

\* C2's case: two samples of one source have been drained and logged.
C2_Witness ==
    /\ Len(RowsOf(vision_sensor)) = 2
    /\ queue_obj[vision_sensor] = <<>>
    /\ pc \in LoopPcs

\* C3 (the claim as stated, on the first exit path it names): when main()
\* returns after poll() found the worker ended, no enqueued sample is still on
\* a queue.  (The interrupt and exception paths leave the loop the same way,
\* without draining.)
C3_NothingLeftQueued ==
    (pc = "returned" /\ exitReason = "worker_exit") =>
        \A src \in Sources : queue_obj[src] = <<>>

\* The change one poll of src's queue makes: nothing when it is empty, else
\* its oldest sample leaves the queue and becomes the last row of the log.
PollEffect(src) ==
    IF queue_obj[src] = <<>>
    THEN log' = log /\ queue_obj' = queue_obj
    ELSE /\ queue_obj' = [queue_obj EXCEPT ![src] = Tail(@)]
         /\ Len(log') = Len(log) + 1
         /\ SubSeq(log', 1, Len(log)) = log
         /\ log'[Len(log')].source = src
         /\ log'[Len(log')].id = Head(queue_obj[src]).id

\* C4: every iteration of the main loop polls the vision queue and then the
\* serial queue, once each and without blocking: a poll of an empty queue
\* changes nothing and moves on, a poll of a non-empty queue logs its oldest
\* sample whatever the other queue holds, and the iteration cannot go on to
\* the display and the worker check without having made both polls.
C4_PollsBothEveryIteration ==
    /\ [][ /\ (pc = "poll_vision" /\ pc' \notin HandlerPcs \cup {"poll_vision"})
              => (pc' = "poll_serial" /\ PollEffect(vision_sensor))
           /\ (pc = "poll_serial" /\ pc' \notin HandlerPcs \cup {"poll_serial"})
              => (pc' = "plot" /\ PollEffect(ground_truth_serial))
           /\ (pc' = "plot" /\ pc # "plot") => pc = "poll_serial"
           /\ (pc' = "poll_vision" /\ pc # "poll_vision")
              => pc \in {"check_worker", "open_log"}
         ]_vars
    /\ [](pc = "poll_vision" => ENABLED PollVision)
    /\ [](pc = "poll_serial" => ENABLED PollSerial)

\* C4's case: the serial sample was logged in an iteration in which the
\* vision queue still held a sample after its poll.
C4_Witness ==
    /\ pc = "plot"
    /\ Len(log) >= 2
    /\ log[Len(log)].source = ground_truth_serial
    /\ log[Len(log) - 1].source = vision_sensor
    /\ queue_obj[vision_sensor] # <<>>

\* C5 (the claim as stated): when main() has been left after the worker was
\* spawned, the worker has been terminated and waited for, the serial device
\* is not open and the log file is not open.
C5_ReleasedOnEveryExit ==
    (pc \in ExitPcs /\ vision_process # "None") =>
        /\ vision_process = "reaped"
        /\ ser # "open"
        /\ csvfile # "open"

\* C6: if opening the serial device raises SerialException, the run is
\* aborted: no adapter thread is started, no log file is created, the serial
\* device is not held, and when main() returns the worker that had been
\* spawned has been terminated and waited for.
C6_SerialFailureAborts ==
    exitReason = "serial_fail" =>
        /\ \A src \in Sources : thread[src] = "not_started"
        /\ csvfile = "None"
        /\ log = <<>>
        /\ ser = "None"
        /\ pc \notin TryPcs
        /\ pc = "returned" => vision_process = "reaped"

\* C6's case: the serial device failed to open and main() has returned.
C6_Witness ==
    /\ exitReason = "serial_fail"
    /\ pc = "returned"
    /\ events = <<"terminate", "wait">>

\* The adapter threads that have ended.
Ended(src) == thread[src] \in {"finished", "crashed"}

\* C7: when an adapter's read fails, only its thread ends: that step changes
\* nothing of the main thread, the other adapter, the queues or the log; with
\* an adapter ended, the main loop is left only for the worker's exit, an
\* interrupt or an exception of the main thread, and each poll of the other
\* source's queue still logs its oldest sample.
C7_AdapterFailureIsolated ==
    [][ \A src \in Sources :
          /\ (thread[src] = "running" /\ Ended(src)')
             => /\ pc' = pc
                /\ thread'[Other(src)] = thread[Other(src)]
                /\ queue_obj' = queue_obj
                /\ log' = log
                /\ csvfile' = csvfile
                /\ vision_process' = vision_process
                /\ ser' = ser
          /\ (Ended(src) /\ pc \in LoopPcs /\ pc' \notin LoopPcs)
             => \/ pc' \in HandlerPcs
                \/ pc = "check_worker" /\ vision_process = "exited"
          /\ (Ended(src) /\ pc = "poll_vision" /\ pc' = "poll_serial")
             => PollEffect(vision_sensor)
          /\ (Ended(src) /\ pc = "poll_serial" /\ pc' = "plot")
             => PollEffect(ground_truth_serial)
      ]_vars

\* C7's case: the vision adapter ended on the first line of the run (arrival
\* 1), the worker still runs, and the serial samples that arrived after it
\* (arrivals 2 and 3) have both been logged by the main loop.
C7_Witness ==
    /\ thread[vision_sensor] = "crashed"
    /\ reads[vision_sensor] = 1
    /\ vision_process = "running"
    /\ pc \in LoopPcs
    /\ IdsOf(RowsOf(ground_truth_serial)) = {2, 3}

\* C8 (the claim as stated): a line holding invalid bytes never ends an
\* adapter, in either variant: the bytes are dropped, the rest is parsed or
\* discarded, and the adapter reads on.
C8_InvalidBytesNeverFatal ==
    \A src \in Sources :
        (reads[src] > 0 /\ \E i \in 1..Len(inLine) : inLine[i] = InvalidByte) =>
            /\ thread[src] = "running"
            /\ LET field == AfterLastComma(DecodeIgnore(inLine))
               IN  ValuesPut(src) =
                       IF FloatRaises(field) THEN <<>>
                       ELSE [i \in 1..reads[src] |-> PyFloat(field)]

\* C9: when the worker has ended, the main loop's check finds it and leaves
\* the loop as a normal end (no handler runs); from then on the log file is
\* closed with every record handed to the writer on disk in full, and when
\* main() returns the serial device is closed.
C9_WorkerExitClosesLog ==
    /\ [][ (pc = "check_worker" /\ vision_process = "exited" /\ pc' # pc
            /\ pc' \notin HandlerPcs)
           => (pc' = "fin_plot" /\ exitReason' = "worker_exit") ]_vars
    /\ [](exitReason = "worker_exit" =>
            /\ csvfile = "closed"
            /\ on_disk = "all"
            /\ pc \notin HandlerPcs
            /\ pc = "returned" => (ser = "closed" /\ vision_process = "reaped"))

\* C9's case: the worker ended mid-run with rows written, and main() returned.
C9_Witness ==
    /\ exitReason = "worker_exit"
    /\ pc = "returned"
    /\ Len(log) >= 2

\* The order C10 states: display, worker termination, wait, serial, log.
ClaimedOrder == <<"close_display", "terminate", "wait", "close_serial", "close_log">>

\* The order of the code: the log first.
CodeOrder == <<"close_log", "close_display", "terminate", "wait", "close_serial">>

RankIn(order, e) == CHOOSE i \in 1..Len(order) : order[i] = e

\* Whether the release steps taken so far follow the given order.
InOrder(order) ==
    \A i, j \in 1..Len(events) :
        i < j => RankIn(order, events[i]) <= RankIn(order, events[j])

\* C10 (the claim as stated): on every exit path the release steps happen in
\* the order display, worker termination and wait, serial device, log.
C10_ClaimedOrder == InOrder(ClaimedOrder)

Has(e) == \E i \in 1..Len(events) : events[i] = e

\* C10, amended: on every exit path the release steps happen in the order
\* log (closed on leaving its with block), display, worker termination and
\* wait, serial device; and when main() returns each step that applies has
\* been taken.
C10_LogClosedFirst ==
    /\ InOrder(CodeOrder)
    /\ pc = "returned" =>
          /\ Has("close_log") <=> csvfile # "None"
          /\ Has("close_display") <=> plot
          /\ Has("terminate") <=> vision_process # "None"
          /\ Has("wait") <=> vision_process # "None"
          /\ Has("close_serial") <=> ser # "None"

\* C10's case: a run with the display that returned after all five steps.
C10_Witness ==
    /\ pc = "returned"
    /\ events = <<"close_log", "close_display", "terminate", "wait", "close_serial">>

\* ====================================================== calibrate_speed.py
\* The calibration command: load_and_prepare_data, the scale solve, the filter
\* grid search and save_results, as main() runs them (lines 143-174).

\* --------------------------------------------------------------- bounds

\* Rows of the log after its warm-up period.
MaxRows == 4

\* ------------------------------------------------------ exact arithmetic
\* numpy computes in float64; the model computes the same expressions over
\* the rationals (a fraction is kept in lowest terms with den > 0), so that
\* rounding is left out and nothing else.

Abs(n) == IF n < 0 THEN -n ELSE n

RECURSIVE Gcd(_, _)
Gcd(a, b) == IF b = 0 THEN Abs(a) ELSE Gcd(b, a % b)

Frac(n, d) ==
    LET g == Gcd(Abs(n), Abs(d))
        sgn == IF d < 0 THEN -1 ELSE 1
    IN  [num |-> sgn * (n \div g), den |-> sgn * (d \div g)]

IntFrac(n) == [num |-> n, den |-> 1]

\* The factors are reduced crosswise before they are multiplied.
FracMul(a, b) ==
    LET g1 == Gcd(Abs(a.num), b.den)
        g2 == Gcd(Abs(b.num), a.den)
    IN  Frac((a.num \div g1) * (b.num \div g2), (a.den \div g2) * (b.den \div g1))

FracAdd(a, b) ==
    LET g == Gcd(a.den, b.den)
    IN  Frac(a.num * (b.den \div g) + b.num * (a.den \div g), (a.den \div g) * b.den)

FracLeq(a, b) == a.num * b.den <= b.num * a.den

\* 1 / a; numpy's inf (den = 0) for 1 / 0.0.
FracInv(a) == IF a.num = 0 THEN [num |-> 1, den |-> 0] ELSE Frac(a.den, a.num)

\* ------------------------------------------------------------- the log

\* Line 11.
START_IDX == 2700

\* The timestamps of the log's rows, as the int64 nanoseconds of line 48.
Timestamps == {100000000, 200000000, 400000000}

\* Angles in degrees, as the worker reports them.
VisionValues == {0, 45}

\* Readings of the reference instrument.
TruthValues == {2}

Row(src, t, m) == [source |-> src, timestamp |-> t, measurement |-> m]

LogRows ==
    {Row(vision_sensor, t, m) : t \in Timestamps, m \in VisionValues}
        \cup {Row(ground_truth_serial, t, m) : t \in Timestamps, m \in TruthValues}

RECURSIVE SeqsUpTo(_, _)
SeqsUpTo(S, n) ==
    IF n = 0 THEN {<<>>}
    ELSE LET shorter == SeqsUpTo(S, n - 1)
         IN  shorter \cup {Append(q, x) : q \in {r \in shorter : Len(r) = n - 1}, x \in S}

\* Lines 48 and 50: the rows of one source, in file order.
SourceRows(rows, src) == SelectSeq(rows, LAMBDA r : r.source = src)

\* The column `source` is deleted (lines 49 and 51).
Samples(rows) == [i \in 1..Len(rows) |-> [timestamp |-> rows[i].timestamp,
                                          measurement |-> rows[i].measurement]]

\* Line 48: the vision series of the log.
VisionSensorRaw(rows) == Samples(SourceRows(rows, vision_sensor))

\* Line 50: the ground-truth series without its first START_IDX rows.  The
\* log holds wu (at most START_IDX) ground-truth rows before `rows`, so the
\* rows dropped by .iloc[START_IDX:] are those and the next START_IDX - wu.
GroundTruthFrame(wu, rows) ==
    LET own == Samples(SourceRows(rows, ground_truth_serial))
        skip == START_IDX - wu
    IN  IF skip >= Len(own) THEN <<>> ELSE SubSeq(own, skip + 1, Len(own))

\* numpy's search for the interval of xp that holds key (linear_search, used
\* for xp of at most four points): the index before the first index from 2
\* on whose xp exceeds key, Len(xp) when there is none.
LinearSearch(key, xp) ==
    LET above == {i \in 2..Len(xp) : \A h \in 2..i : (h < i) = (key >= xp[h])}
    IN  IF above = {} THEN Len(xp) ELSE (CHOOSE i \in above : TRUE) - 1

\* np.interp for one x (line 53): xp is NOT sorted by np.interp, which reads
\* the two ends and then searches from the left.
Interp1(x, xp, fp) ==
    IF x > xp[Len(xp)] THEN IntFrac(fp[Len(xp)])
    ELSE IF x < xp[1] THEN IntFrac(fp[1])
    ELSE LET j == LinearSearch(x, xp)
         IN  IF j = Len(xp) \/ xp[j] = x THEN IntFrac(fp[j])
             ELSE LET slope == Frac(fp[j + 1] - fp[j], xp[j + 1] - xp[j])
                  IN  FracAdd(FracMul(slope, IntFrac(x - xp[j])), IntFrac(fp[j]))

\* A faulty variant of NpInterp: no value for an x outside the span of xp.
NpInterpInside(x, xp, fp) ==
    LET inside == SelectSeq(x, LAMBDA t : t >= xp[1] /\ t <= xp[Len(xp)])
    IN  [i \in 1..Len(inside) |-> Interp1(inside[i], xp, fp)]

\* Line 53: one value per element of x.
NpInterp(x, xp, fp) == [i \in 1..Len(x) |-> Interp1(x[i], xp, fp)]

Column(frame, name) == [i \in 1..Len(frame) |-> frame[i][name]]

\* Lines 46-61.  np.interp raises ValueError when xp is empty.
LoadRaises(wu, rows) == VisionSensorRaw(rows) = <<>>

LoadAndPrepareData(wu, rows) ==
    LET vision_sensor_raw == VisionSensorRaw(rows)
        gt == GroundTruthFrame(wu, rows)
    IN  [vision_interpolated |->
             NpInterp(Column(gt, "timestamp"),
                      Column(vision_sensor_raw, "timestamp"),
                      Column(vision_sensor_raw, "measurement")),
         ground_truth |-> gt]

\* ------------------------------------------------------- main(): the data

\* What the steps of the calibration command leave alone.
CalFrame == UNCHANGED <<logVars, restVars>>

\* The command has ended: main() returned, or an exception left it.
CalExitPcs == {"returned", "raised"}

\* An exception leaves main(): nothing in calibrate_speed.py catches it.
CalRaise(exc) ==
    /\ cal_pc' = "raised"
    /\ cal_error' = exc

\* Line 156.
Load(next) ==
    /\ cal_pc = "load"
    /\ IF LoadRaises(warm_up, raw_data)
       THEN /\ CalRaise("ValueError")
            /\ UNCHANGED <<vision_interpolated, ground_truth>>
       ELSE /\ vision_interpolated' = LoadAndPrepareData(warm_up, raw_data).vision_interpolated
            /\ ground_truth' = LoadAndPrepareData(warm_up, raw_data).ground_truth
            /\ cal_pc' = next
            /\ UNCHANGED cal_error
    /\ UNCHANGED <<side, warm_up, raw_data, k, fs, errors, best_params,
                   accepted_optimised_params, config, config_json, answers>>
    /\ CalFrame

\* Line 159.
NS == 1000000000

\* Line 159: 1 / ((t1 - t0) / 1e9), from the first two timestamps alone.
SampleRateOf(gt) ==
    FracInv(FracMul(IntFrac(gt[2].timestamp - gt[1].timestamp), Frac(1, NS)))

\* Line 159: .iloc[1] raises IndexError on a series of fewer than two rows.
SampleRate(next) ==
    /\ cal_pc = "fs"
    /\ IF Len(ground_truth) < 2
       THEN /\ CalRaise("IndexError")
            /\ UNCHANGED fs
       ELSE /\ fs' = SampleRateOf(ground_truth)
            /\ cal_pc' = next
            /\ UNCHANGED cal_error
    /\ UNCHANGED <<side, warm_up, raw_data, vision_interpolated, ground_truth,
                   k, errors, best_params, accepted_optimised_params, config,
                   config_json, answers>>
    /\ CalFrame

\* Parts of the state a specification of one function does not use.
NoLog == warm_up = 0 /\ raw_data = <<>>

NoSeries == vision_interpolated = <<>> /\ ground_truth = <<>>

NoFit == k = <<>> /\ fs = <<>>

NoSearch == errors = <<>> /\ best_params = <<>> /\ accepted_optimised_params = <<>>

NoConfig == side = "left" /\ config = <<>> /\ config_json = <<>> /\ answers = <<>>

LogIdle ==
    /\ pc = "spawn"
    /\ plot = FALSE
    /\ vision_process = "None"
    /\ ser = "None"
    /\ thread = [s \in Sources |-> "not_started"]
    /\ reads = [s \in Sources |-> 0]
    /\ queue_obj = [s \in Sources |-> <<>>]
    /\ csvfile = "None"
    /\ log = <<>>
    /\ on_disk = "none"
    /\ new_data_received = FALSE
    /\ unwinding = FALSE
    /\ exitReason = "none"
    /\ events = <<>>
    /\ inLine = <<>>

\* The alignment on any log of at most MaxRows rows after a warm-up period of
\* START_IDX ground-truth rows, or after none.
InitAlign ==
    /\ cal_pc = "load"
    /\ warm_up \in {0, START_IDX}
    /\ raw_data \in SeqsUpTo(LogRows, MaxRows)
    /\ cal_error = "none"
    /\ NoSeries /\ NoFit /\ NoSearch /\ NoConfig
    /\ LogIdle
    /\ RestIdle

\* load_and_prepare_data, then the rate of line 159 on the series it returned
\* (line 157, between them, does not touch that series).
NextAlign ==
    \/ Load("fs")
    \/ SampleRate("returned")

SpecAlign == InitAlign /\ [][NextAlign]_vars

\* ------------------------------------------------- claims: the alignment

\* The orders in which the rows of a log can stand in the file.
RowOrders(rows) ==
    LET n == Len(rows)
        bij == {f \in [1..n -> 1..n] : \A i, j \in 1..n : f[i] = f[j] => i = j}
    IN  {[i \in 1..n |-> rows[f[i]]] : f \in bij}

\* The paired points of an aligned result: each retained ground-truth sample
\* with the vision value interpolated at its timestamp.
AlignedPoints(vi, gt) ==
    {<<gt[i].timestamp, gt[i].measurement, vi[i]>> : i \in 1..Len(gt)}

\* load_and_prepare_data has returned.
Loaded == cal_pc = "fs"

\* No two rows of one source carry the same timestamp, so that sorting a
\* series by timestamp leaves one order only.
DistinctTimes(rows) ==
    \A i, j \in 1..Len(rows) :
        (rows[i].source = rows[j].source /\ rows[i].timestamp = rows[j].timestamp)
            => i = j

\* C13: the aligned result is the same for every permutation of the log's
\* rows: whatever order the rows of the log stand in (timestamps distinct
\* within each series), load_and_prepare_data pairs each retained
\* ground-truth sample with the same vision value.
C13_SameForEveryPermutation ==
    (Loaded /\ DistinctTimes(raw_data)) =>
        \A p \in RowOrders(raw_data) :
            AlignedPoints(LoadAndPrepareData(warm_up, p).vision_interpolated,
                          LoadAndPrepareData(warm_up, p).ground_truth)
                = AlignedPoints(vision_interpolated, ground_truth)

\* C14: the two series returned by load_and_prepare_data have equal length:
\* one interpolated vision value for each retained ground-truth sample, and
\* the retained samples are the ground-truth rows after the first START_IDX.
C14_EqualLength ==
    Loaded =>
        /\ Len(vision_interpolated) = Len(ground_truth)
        /\ Len(ground_truth) =
               IF warm_up = START_IDX
               THEN Len(SourceRows(raw_data, ground_truth_serial))
               ELSE 0

\* A log whose ground-truth samples lie inside and outside the span of the
\* vision samples has been aligned.
C14_Witness ==
    /\ Loaded
    /\ Len(ground_truth) >= 2
    /\ \E i, j \in 1..Len(ground_truth) :
           /\ \E r \in {raw_data[h] : h \in 1..Len(raw_data)} :
                  r.source = vision_sensor /\ r.timestamp < ground_truth[i].timestamp
           /\ \A r \in {raw_data[h] : h \in 1..Len(raw_data)} :
                  r.source = vision_sensor => r.timestamp > ground_truth[j].timestamp

\* The vision samples of the log.
VisionSamples == {raw_data[i] : i \in {h \in 1..Len(raw_data) : raw_data[h].source = vision_sensor}}

\* a and b are the vision samples next to t on either side.
Bound(a, b, t) ==
    /\ a.timestamp < t
    /\ t < b.timestamp
    /\ \A s \in VisionSamples : ~(a.timestamp < s.timestamp /\ s.timestamp < b.timestamp)

Between(v, m1, m2) ==
    \/ FracLeq(IntFrac(m1), v) /\ FracLeq(v, IntFrac(m2))
    \/ FracLeq(IntFrac(m2), v) /\ FracLeq(v, IntFrac(m1))

\* What C15 says of the i-th aligned point.
InterpolatedWithin(i) ==
    LET t == ground_truth[i].timestamp
        v == vision_interpolated[i]
    IN  /\ \A s \in VisionSamples : s.timestamp = t => v = IntFrac(s.measurement)
        /\ \A a, b \in VisionSamples :
               Bound(a, b, t) => Between(v, a.measurement, b.measurement)

\* C15: for every ground-truth timestamp t the interpolated vision value lies
\* between (inclusive) the values of the two vision samples whose timestamps
\* bound t, and equals the vision sample's value when t is a vision timestamp
\* (timestamps distinct within each series).
C15_InterpolatedBetweenNeighbours ==
    (Loaded /\ DistinctTimes(raw_data)) =>
        \A i \in 1..Len(ground_truth) : InterpolatedWithin(i)

\* The vision rows stand in the file in increasing order of timestamp.
VisionInOrder ==
    LET v == VisionSensorRaw(raw_data)
    IN  \A i \in 1..(Len(v) - 1) : v[i].timestamp < v[i + 1].timestamp

\* C15 on the logs whose vision rows stand in timestamp order.
InterpolatedWithinWhenInOrder ==
    (Loaded /\ VisionInOrder) => \A i \in 1..Len(ground_truth) : InterpolatedWithin(i)

\* The ground-truth rows retained stand in increasing order of timestamp.
TruthInOrder ==
    \A i \in 1..(Len(ground_truth) - 1) :
        ground_truth[i].timestamp < ground_truth[i + 1].timestamp

\* The reciprocal of the mean interval between samples: the number of
\* intervals over the total span, in seconds.
MeanRate(gt) ==
    FracInv(FracMul(Frac(gt[Len(gt)].timestamp - gt[1].timestamp, Len(gt) - 1),
                    Frac(1, NS)))

\* C19: the sample rate used for the filter is the reciprocal of the mean
\* inter-sample interval of the ground-truth series (total span over number
\* of intervals), for every series in timestamp order, also when its first
\* interval differs from the others.
C19_RateFromMeanInterval ==
    (cal_pc = "returned" /\ TruthInOrder) => fs = MeanRate(ground_truth)

\* ------------------------------------------------------- the scale solve

\* Series solved in the specification of the scale solve.
MaxFit == 3

\* tan of an angle given in degrees (np.tan(np.deg2rad(a))), at the angles
\* where it is rational.
TanDeg(a) ==
    CASE a = IntFrac(0) -> 0
      [] a = IntFrac(45) -> 1
      [] a = IntFrac(-45) -> -1

\* np.sqrt, at the perfect squares.
Sqrt(n) == CHOOSE r \in 0..n : r * r = n

\* Line 66, before the reshape.
WindSpeed(vi) == [i \in 1..Len(vi) |-> Sqrt(Abs(TanDeg(vi[i])))]

\* The sum of the terms f[1] .. f[n].
RECURSIVE Sum(_, _)
Sum(f, n) == IF n = 0 THEN 0 ELSE f[n] + Sum(f, n - 1)

\* A faulty variant of Lstsq: the ratio of the sums.
LstsqRatioOfSums(x, g) ==
    IF Sum(x, Len(x)) = 0 THEN IntFrac(0) ELSE Frac(Sum(g, Len(g)), Sum(x, Len(x)))

\* np.linalg.lstsq for the one-column system x * k = g (line 67): the k that
\* minimises the sum of the squared residuals, the one of least magnitude
\* when several do.  The minimum is sought among the fractions p / q with
\* |p| at most the sum of |g| and q at most the number of rows.
Lstsq(x, g) ==
    LET n == Len(x)
        s == Sum([i \in 1..n |-> Abs(g[i])], n)
        cands == {Frac(p, q) : p \in (0 - s)..s, q \in 1..(IF n = 0 THEN 1 ELSE n)}
        \* the sum of squared residuals of c, times c.den squared
        sse == [c \in cands |->
                   Sum([i \in 1..n |-> (g[i] * c.den - c.num * x[i])
                                        * (g[i] * c.den - c.num * x[i])], n)]
        Better(c, d) ==
            \/ sse[c] * d.den * d.den < sse[d] * c.den * c.den
            \/ /\ sse[c] * d.den * d.den = sse[d] * c.den * c.den
               /\ Abs(c.num) * d.den <= Abs(d.num) * c.den
    IN  CHOOSE c \in cands : \A d \in cands : Better(c, d)

\* Lines 64-69: the k returned.
CalibrateK(vi, gt) == Lstsq(WindSpeed(vi), Column(gt, "measurement"))

\* Line 157.
Calibrate(next) ==
    /\ cal_pc = "calibrate"
    /\ k' = CalibrateK(vision_interpolated, ground_truth)
    /\ cal_pc' = next
    /\ UNCHANGED <<cal_error, side, warm_up, raw_data, vision_interpolated,
                   ground_truth, fs, errors, best_params,
                   accepted_optimised_params, config, config_json, answers>>
    /\ CalFrame

\* Angles and reference readings of the series solved.
FitAngles == {-45, 0, 45}

FitTruth == {0, 1, 2}

\* calibrate_and_convert_to_windspeed on any two series of equal length, at
\* most MaxFit.
InitFit ==
    /\ cal_pc = "calibrate"
    /\ \E n \in 0..MaxFit :
           /\ vision_interpolated \in [1..n -> {IntFrac(a) : a \in FitAngles}]
           /\ ground_truth \in [1..n -> {[timestamp |-> 0, measurement |-> m] : m \in FitTruth}]
    /\ cal_error = "none"
    /\ NoLog /\ NoFit /\ NoSearch /\ NoConfig
    /\ LogIdle
    /\ RestIdle

NextFit == Calibrate("returned")

SpecFit == InitFit /\ [][NextFit]_vars

\* The x of the claim: sqrt(|tan(angle)|) for each interpolated angle.
FitX == WindSpeed(vision_interpolated)

FitG == Column(ground_truth, "measurement")

SumGX == Sum([i \in 1..Len(FitX) |-> FitG[i] * FitX[i]], Len(FitX))

SumXX == Sum([i \in 1..Len(FitX) |-> FitX[i] * FitX[i]], Len(FitX))

\* C16: calibrate_and_convert_to_windspeed returns the least-squares scale
\* through the origin, k = sum(g_i * x_i) / sum(x_i^2) with
\* x_i = sqrt(|tan(angle_i)|), whenever some x_i is not zero; and when
\* g_i = c * x_i for every i, the k returned is c.
C16_ScaleIsLeastSquares ==
    (cal_pc = "returned" /\ SumXX # 0) =>
        /\ k = Frac(SumGX, SumXX)
        /\ \A c \in FitTruth :
               (\A i \in 1..Len(FitX) : FitG[i] = c * FitX[i]) => k = IntFrac(c)

\* A series with a zero x, two nonzero x and readings in no fixed ratio to x
\* has been solved, and the k found is not a whole number.
C16_Witness ==
    /\ cal_pc = "returned"
    /\ \E i \in 1..Len(FitX) : FitX[i] = 0 /\ FitG[i] # 0
    /\ \E i, j \in 1..Len(FitX) : i # j /\ FitX[i] # 0 /\ FitX[j] # 0
    /\ k.den # 1

\* ------------------------------------------------------ the grid search

\* Largest finite RMSE drawn for a grid pair.
MaxError == 1

\* float64 values: a fraction, +inf (den = 0, num = 1) or NaN (0 / 0).
Inf == [num |-> 1, den |-> 0]

NaN == [num |-> 0, den |-> 0]

IsNaN(a) == a.num = 0 /\ a.den = 0

\* a < b in float64: False when either is NaN.
FloatLess(a, b) == ~IsNaN(b) /\ ~IsNaN(a) /\ a.num * b.den < b.num * a.den

\* The least integer not below a.
Ceil(a) == IF a.num % a.den = 0 THEN a.num \div a.den ELSE (a.num \div a.den) + 1

\* np.arange(start, stop, step): ceil((stop - start) / step) values.
Arange(start, stop, step) ==
    LET span == FracAdd(stop, [num |-> 0 - start.num, den |-> start.den])
        n == Ceil(FracMul(span, FracInv(step)))
    IN  [i \in 1..n |-> FracAdd(start, FracMul(IntFrac(i - 1), step))]

\* Line 75: range(2, 7), as the sequence it iterates.
orders == [i \in 1..5 |-> i + 1]

\* Line 76: np.arange(0.1, 1.5, 0.05).
cutoffs == Arange(Frac(1, 10), Frac(3, 2), Frac(1, 20))

\* Lines 80-81: the pairs in the order the loops meet them.
Grid ==
    [i \in 1..(Len(orders) * Len(cutoffs)) |->
        [order |-> orders[((i - 1) \div Len(cutoffs)) + 1],
         cutoff |-> cutoffs[((i - 1) % Len(cutoffs)) + 1]]]

\* Line 77.
Placeholder == [order |-> 0, cutoff |-> IntFrac(0)]

\* signal.butter (line 82) raises ValueError unless 0 < cutoff < fs / 2.
ButterRaises(cutoff, rate) ==
    ~(FloatLess(IntFrac(0), cutoff) /\ FloatLess(FracMul(cutoff, IntFrac(2)), rate))

\* A faulty variant of Improves: a tie replaces the pair kept.
ImprovesOrTies(error, min_rmse) ==
    ~IsNaN(min_rmse) /\ ~IsNaN(error) /\ ~FloatLess(min_rmse, error)

\* Line 85.
Improves(error, min_rmse) == FloatLess(error, min_rmse)

\* The position in Grid of the pair of the i-th order and the j-th cutoff.
Cell(i, j) == (i - 1) * Len(cutoffs) + j

RECURSIVE CutoffLoop(_, _, _, _)
\* Lines 81-87 for the i-th order, from the j-th cutoff on; errs[c] is the
\* RMSE that lines 82-84 compute for the pair at position c, and st holds
\* min_rmse and best_params.
CutoffLoop(i, j, errs, st) ==
    IF j > Len(cutoffs) THEN st
    ELSE LET error == errs[Cell(i, j)]
         IN  IF Improves(error, st.min_rmse)
             THEN CutoffLoop(i, j + 1, errs,
                             [min_rmse |-> error,
                              best_params |-> [order |-> orders[i],
                                               cutoff |-> cutoffs[j],
                                               rmse |-> error]])
             ELSE CutoffLoop(i, j + 1, errs, st)

RECURSIVE OrderLoop(_, _, _)
\* Lines 80-87 from the i-th order on.
OrderLoop(i, errs, st) ==
    IF i > Len(orders) THEN st
    ELSE OrderLoop(i + 1, errs, CutoffLoop(i, 1, errs, st))

\* Lines 77-87: best_params after the loops.
GridSearch(errs) ==
    OrderLoop(1, errs, [min_rmse |-> Inf, best_params |-> Placeholder]).best_params

\* The exception that leaves optimise_filter_parameters, or "none": the
\* ValueError of signal.butter in the loop, or the KeyError of line 89, which
\* reads best_params['rmse'].
OptimiseRaises(errs, rate) ==
    IF \E i \in 1..Len(Grid) : ButterRaises(Grid[i].cutoff, rate) THEN "ValueError"
    ELSE IF "rmse" \notin DOMAIN GridSearch(errs) THEN "KeyError"
    ELSE "none"

\* Lines 72-90: the value returned.
OptimiseFilterParameters(errs, rate) == GridSearch(errs)

\* Line 164.
Optimise(next) ==
    /\ cal_pc = "optimise"
    /\ IF OptimiseRaises(errors, fs) # "none"
       THEN /\ CalRaise(OptimiseRaises(errors, fs))
            /\ UNCHANGED best_params
       ELSE /\ best_params' = OptimiseFilterParameters(errors, fs)
            /\ cal_pc' = next
            /\ UNCHANGED cal_error
    /\ UNCHANGED <<side, warm_up, raw_data, vision_interpolated, ground_truth,
                   k, fs, errors, accepted_optimised_params, config,
                   config_json, answers>>
    /\ CalFrame

\* The RMSE values drawn.
ErrorValues == {IntFrac(e) : e \in 0..MaxError} \cup {Inf, NaN}

\* Tables of RMSE: one value for all pairs but one.
ErrorTables ==
    {[i \in 1..Len(Grid) |-> IF i = cell THEN marked ELSE rest] :
        rest \in ErrorValues, cell \in 1..Len(Grid), marked \in ErrorValues}

\* Sample rates: one above twice every cutoff of the grid, one not.
Rates == {IntFrac(10), IntFrac(2)}

\* optimise_filter_parameters on any of these tables and rates.
InitOpt ==
    /\ cal_pc = "optimise"
    /\ errors \in ErrorTables
    /\ fs \in Rates
    /\ k = <<>>
    /\ best_params = <<>>
    /\ accepted_optimised_params = <<>>
    /\ cal_error = "none"
    /\ NoLog /\ NoSeries /\ NoConfig
    /\ LogIdle
    /\ RestIdle

NextOpt == Optimise("returned")

SpecOpt == InitOpt /\ [][NextOpt]_vars

\* ----------------------------------------------- claims: the grid search

\* The position in Grid of the pair held by the dictionary params.
CellOf(params) ==
    CHOOSE c \in 1..Len(Grid) :
        Grid[c].order = params.order /\ Grid[c].cutoff = params.cutoff

\* The dictionary params holds a pair of the grid.
FromGrid(params) ==
    \E c \in 1..Len(Grid) :
        Grid[c].order = params.order /\ Grid[c].cutoff = params.cutoff

\* C17: optimise_filter_parameters returns the (order, cutoff) pair whose
\* RMSE is the minimum over the whole grid of orders 2..6 and cutoffs 0.1 to
\* below 1.5 in steps of 0.05; among pairs of equal RMSE it returns the one
\* met first, orders increasing and cutoffs increasing within an order.
C17_ReturnsFirstMinimum ==
    cal_pc = "returned" =>
        /\ FromGrid(best_params)
        /\ best_params.rmse = errors[CellOf(best_params)]
        /\ \A c \in 1..Len(Grid) : ~FloatLess(errors[c], best_params.rmse)
        /\ \A c \in 1..(CellOf(best_params) - 1) : errors[c] # best_params.rmse

\* The search has returned a pair that is not the first of the grid and
\* whose RMSE a later pair equals.
C17_Witness ==
    /\ cal_pc = "returned"
    /\ CellOf(best_params) > 1
    /\ \E c \in (CellOf(best_params) + 1)..Len(Grid) : errors[c] = best_params.rmse

\* signal.butter accepts every cutoff of the grid at this sample rate.
EveryCutoffBelowNyquist == \A c \in 1..Len(Grid) : ~ButterRaises(Grid[c].cutoff, fs)

\* C18: for every input (those where no candidate's RMSE is finite
\* included) the grid search returns parameters with order >= 1 and
\* cutoff > 0, a pair of the grid, never the placeholder of line 77.
C18_AlwaysAGridPair ==
    (cal_pc \in CalExitPcs /\ EveryCutoffBelowNyquist) =>
        /\ cal_pc = "returned"
        /\ best_params.order >= 1
        /\ FloatLess(IntFrac(0), best_params.cutoff)
        /\ FromGrid(best_params)

\* Whatever optimise_filter_parameters returns is a pair of the grid: the
\* placeholder is never returned, because line 89 raises on it.
ReturnedIsFromGrid ==
    cal_pc = "returned" => FromGrid(best_params) /\ best_params.order >= 2

\* --------------------------------------------------- alignment, then solve

\* The captured log of ten vision samples at the instants 1..10 (tenths of a
\* second) and five ground-truth samples at the instants 2, 4, 6, 8, 10, in
\* the order of their instants; angle[i] is the i-th vision measurement.
CapturedLog(angle) ==
    [j \in 1..15 |->
        IF j % 3 = 0
        THEN Row(ground_truth_serial, 2 * (j \div 3) * 100000000, 2)
        ELSE Row(vision_sensor, (j - (j \div 3)) * 100000000, angle[j - (j \div 3)])]

InitEndToEnd ==
    /\ cal_pc = "load"
    /\ warm_up = 0
    /\ raw_data \in {CapturedLog(angle) : angle \in [1..10 -> VisionValues]}
    /\ cal_error = "none"
    /\ NoSeries /\ NoFit /\ NoSearch /\ NoConfig
    /\ LogIdle
    /\ RestIdle

\* Lines 156-157.
NextEndToEnd ==
    \/ Load("calibrate")
    \/ Calibrate("returned")

SpecEndToEnd == InitEndToEnd /\ [][NextEndToEnd]_vars

\* C20: on a log of 10 vision samples and 5 ground-truth samples at the
\* timestamps of the vision samples 2, 4, 6, 8, 10, load_and_prepare_data as
\* shipped yields exactly 5 paired points, and the scale solve then returns
\* one finite k.
C20_FivePairsOneScale ==
    /\ cal_pc = "calibrate" =>
           Len(vision_interpolated) = 5 /\ Len(ground_truth) = 5
    /\ cal_pc = "returned" =>
           /\ Len(vision_interpolated) = 5 /\ Len(ground_truth) = 5
           /\ k.den # 0

\* ------------------------------------------- main(): prompts and config

\* Python dictionaries are functions on their keys.  d[key] = v adds the key
\* when d does not hold it.
DictSet(d, key, v) == [x \in DOMAIN d \cup {key} |-> IF x = key THEN v ELSE d[x]]

Sides == {"left", "right"}

\* The filter entry of one side, or of the session, in config.json.
FilterEntry(order, cutoff_hz) == ("order" :> order) @@ ("cutoff_hz" :> cutoff_hz)

ScaleEntry(scale) == "scale_constant" :> scale

\* Contents of config.json before the run: with the keys main() reads
\* (butterworth_filter.order and .cutoff_hz, line 170), with the per-side
\* entries only, without butterworth_filter, and without the side's entry of
\* conversion_params.
PerSide(entry) == [s \in Sides |-> entry]

Configs ==
    {   ("conversion_params" :> PerSide(ScaleEntry(IntFrac(1))))
            @@ ("butterworth_filter" :> (FilterEntry(4, Frac(1, 2)) @@ PerSide(FilterEntry(4, Frac(1, 2))))),
        ("conversion_params" :> PerSide(ScaleEntry(IntFrac(1))))
            @@ ("butterworth_filter" :> PerSide(FilterEntry(4, Frac(1, 2)))),
        ("conversion_params" :> PerSide(ScaleEntry(IntFrac(1)))),
        ("conversion_params" :> <<>>)
            @@ ("butterworth_filter" :> (FilterEntry(4, Frac(1, 2)) @@ PerSide(FilterEntry(4, Frac(1, 2)))))
    }

\* What input() returns at a prompt, lowered.
Answers == {"y", "n"}

NotAsked == [optimise |-> "-", session |-> "-", save_k |-> "-", save_filter |-> "-"]

CalMainFrame == UNCHANGED <<side, warm_up, raw_data, vision_interpolated,
                            ground_truth, k, fs, errors, logVars, restVars>>

\* Line 163.
AskOptimise ==
    /\ cal_pc = "ask_optimise"
    /\ \E a \in Answers :
           /\ answers' = [answers EXCEPT !.optimise = a]
           /\ cal_pc' = IF a = "y" THEN "optimise" ELSE "apply_filter"
    /\ UNCHANGED <<cal_error, best_params, accepted_optimised_params, config,
                   config_json>>
    /\ CalMainFrame

\* Lines 165-168: accepting for the session writes the pair into the
\* dictionary config itself.
AskSession ==
    /\ cal_pc = "ask_session"
    /\ \E a \in Answers :
           /\ answers' = [answers EXCEPT !.session = a]
           /\ IF a = "y"
              THEN IF "butterworth_filter" \notin DOMAIN config
                   THEN /\ CalRaise("KeyError")
                        /\ UNCHANGED <<config, accepted_optimised_params>>
                   ELSE /\ config' =
                               DictSet(config, "butterworth_filter",
                                   DictSet(DictSet(config["butterworth_filter"],
                                                   "order", best_params.order),
                                           "cutoff_hz", best_params.cutoff))
                        /\ accepted_optimised_params' = best_params
                        /\ cal_pc' = "apply_filter"
                        /\ UNCHANGED cal_error
              ELSE /\ cal_pc' = "apply_filter"
                   /\ UNCHANGED <<cal_error, config, accepted_optimised_params>>
    /\ UNCHANGED <<best_params, config_json>>
    /\ CalMainFrame

\* Lines 93-99 and 170: the exception apply_filter leaves by, or "none".
ApplyFilterRaises(cfg, rate) ==
    IF "butterworth_filter" \notin DOMAIN cfg THEN "KeyError"
    ELSE IF {"cutoff_hz", "order"} \ DOMAIN cfg["butterworth_filter"] # {} THEN "KeyError"
    ELSE IF ButterRaises(cfg["butterworth_filter"]["cutoff_hz"], rate) THEN "ValueError"
    ELSE "none"

\* Line 170.
ApplyFilter ==
    /\ cal_pc = "apply_filter"
    /\ IF ApplyFilterRaises(config, fs) # "none"
       THEN CalRaise(ApplyFilterRaises(config, fs))
       ELSE cal_pc' = "plot" /\ UNCHANGED cal_error
    /\ UNCHANGED <<best_params, accepted_optimised_params, config, config_json,
                   answers>>
    /\ CalMainFrame

\* Line 172: the window is shown and closed.
PlotResults ==
    /\ cal_pc = "plot"
    /\ cal_pc' = "save"
    /\ UNCHANGED <<cal_error, best_params, accepted_optimised_params, config,
                   config_json, answers>>
    /\ CalMainFrame

\* Line 126 raises KeyError when the dictionary lacks the side's entry.
SaveKRaises(cfg, s) ==
    \/ "conversion_params" \notin DOMAIN cfg
    \/ s \notin DOMAIN cfg["conversion_params"]

\* Lines 125-127: config_to_write after a "y" at the first prompt.
WithScale(cfg, s, scale) ==
    DictSet(cfg, "conversion_params",
        DictSet(cfg["conversion_params"], s,
            DictSet(cfg["conversion_params"][s], "scale_constant", scale)))

\* Lines 130-135: config_to_write after a "y" at the second prompt.
WithFilter(cfg, s, params) ==
    DictSet(cfg, "butterworth_filter",
        DictSet(cfg["butterworth_filter"], s,
            FilterEntry(params.order, params.cutoff)))

\* Lines 120-140 and 174.  config_to_write is a shallow copy of config: the
\* dictionaries it changes are those of config, as changed at lines 166-167.
SaveResults ==
    /\ cal_pc = "save"
    /\ \E ak \in Answers,
          af \in (IF accepted_optimised_params # <<>> THEN Answers ELSE {"-"}) :
           IF ak = "y" /\ SaveKRaises(config, side)
           THEN /\ CalRaise("KeyError")
                /\ answers' = [answers EXCEPT !.save_k = ak]
                /\ UNCHANGED <<config, config_json>>
           ELSE LET with_k == IF ak = "y" THEN WithScale(config, side, k) ELSE config
                    config_to_write ==
                        IF af = "y"
                        THEN WithFilter(with_k, side, accepted_optimised_params)
                        ELSE with_k
                    should_write_to_file == ak = "y" \/ af = "y"
                IN  /\ answers' = [answers EXCEPT !.save_k = ak, !.save_filter = af]
                    /\ config' = config_to_write
                    /\ config_json' =
                           IF should_write_to_file
                           THEN [config_json EXCEPT !.content = config_to_write,
                                                    !.written = TRUE]
                           ELSE config_json
                    /\ cal_pc' = "returned"
                    /\ UNCHANGED cal_error
    /\ UNCHANGED <<best_params, accepted_optimised_params>>
    /\ CalMainFrame

\* Logs in timestamp order, one row every tenth of a second, the vision
\* angle 45 and the reference reading 2 throughout.
CalLogs ==
    UNION {{[i \in 1..n |-> Row(tag[i], i * 100000000,
                                IF tag[i] = vision_sensor THEN 45 ELSE 2)] :
               tag \in [1..n -> Sources]} : n \in 0..MaxRows}

\* The calibration command, for either side, on a log of CalLogs after a
\* warm-up period or after none, with any of Configs in config.json; the
\* filter gives every pair of the grid the same RMSE, a number or NaN.
InitCal ==
    /\ cal_pc = "load"
    /\ cal_error = "none"
    /\ side \in Sides
    /\ warm_up \in {0, START_IDX}
    /\ raw_data \in CalLogs
    /\ NoSeries /\ NoFit
    /\ errors \in {[i \in 1..Len(Grid) |-> e] : e \in {IntFrac(0), NaN}}
    /\ best_params = <<>>
    /\ accepted_optimised_params = <<>>
    /\ config \in Configs
    /\ config_json = [before |-> config, content |-> config, written |-> FALSE]
    /\ answers = NotAsked
    /\ LogIdle
    /\ RestIdle

\* main(), lines 156-174.
NextCal ==
    \/ Load("calibrate")
    \/ Calibrate("fs")
    \/ SampleRate("ask_optimise")
    \/ AskOptimise
    \/ Optimise("ask_session")
    \/ AskSession
    \/ ApplyFilter
    \/ PlotResults
    \/ SaveResults

SpecCal == InitCal /\ [][NextCal]_vars

\* ------------------------------------------ claims: prompts and config

\* The part of a configuration under key, <<>> when it has none.
Part(cfg, key) == IF key \in DOMAIN cfg THEN cfg[key] ELSE <<>>

\* C11: config.json is written only if the user answered "y" to a save
\* prompt, and each fitted output needs its own confirmation: the written
\* file differs from the old one in its conversion parameters only if the
\* save-K prompt was confirmed, and in its filter parameters only if the
\* save-filter-parameters prompt was confirmed.
C11_EachOutputOwnConfirmation ==
    cal_pc \in CalExitPcs =>
        /\ config_json.written =>
               (answers.save_k = "y" \/ answers.save_filter = "y")
        /\ Part(config_json.content, "conversion_params")
               # Part(config_json.before, "conversion_params")
               => answers.save_k = "y"
        /\ Part(config_json.content, "butterworth_filter")
               # Part(config_json.before, "butterworth_filter")
               => answers.save_filter = "y"

\* config.json is rewritten only after a "y" at a save prompt.
WrittenOnlyOnConfirmation ==
    config_json.written => (answers.save_k = "y" \/ answers.save_filter = "y")

\* The calibration input is invalid: a series of fewer than two points, or
\* a key of the configuration missing.
InvalidInput ==
    \/ Len(VisionSensorRaw(raw_data)) < 2
    \/ Len(GroundTruthFrame(warm_up, raw_data)) < 2
    \/ "butterworth_filter" \notin DOMAIN config_json.before
    \/ SaveKRaises(config_json.before, side)

\* C12: when the calibration input is invalid the run ends in a reported
\* error, not in an exception that leaves main() unhandled, and config.json
\* is left as it was.
C12_InvalidInputReported ==
    (cal_pc \in CalExitPcs /\ InvalidInput) =>
        /\ cal_pc = "returned"
        /\ ~config_json.written
        /\ config_json.content = config_json.before

\* A run that an exception leaves has not written config.json.
RaisedLeavesConfig ==
    cal_pc = "raised" => (~config_json.written /\ config_json.content = config_json.before)

\* ================================================= datalogger.py: the main loop
\* The loop of lines 180-246 with the time it reads, the sliding windows of the
\* live display and the thread that forwards the worker's error stream.

\* --------------------------------------------------------------- bounds

\* Fifths of a second that pass while the loop is modelled.
MaxTicks == 4

\* Lines the worker writes on its error stream.
MaxStderr == 1

\* ------------------------------------------------------------ constants

\* collections.deque(maxlen=500), lines 105-106.
maxlen == 500

\* The throttle of line 213: 0.2 s.  Time is counted in fifths of a second.
Throttle == 1

\* time.sleep(0.001) at line 246: at most 200 iterations in a fifth of a second.
IterationsPerTick == 200

\* One hour, in fifths of a second: the step of the local zone's offset when
\* daylight saving time ends.
Hour == 18000

\* ------------------------------------------------------- time and the zone

\* datetime.fromtimestamp(timestamp).isoformat(): the naive local time of the
\* reading, written without any offset.
IsoLocal(timestamp) == timestamp + utcoffset

\* Time passes.
Tick ==
    /\ pc \in LoopPcs
    /\ clock < MaxTicks
    /\ clock' = clock + 1
    /\ UNCHANGED <<logVars, calVars, utcoffset, last_plot_time, vision_data,
                   serial_data, drained_before, refreshes, stderr_thread, printed,
                   callVars>>

\* Daylight saving time ends in the local zone: its offset drops by an hour.
ZoneTransition ==
    /\ pc \in LoopPcs
    /\ utcoffset = Hour
    /\ utcoffset' = 0
    /\ UNCHANGED <<logVars, calVars, clock, last_plot_time, vision_data,
                   serial_data, drained_before, refreshes, stderr_thread, printed,
                   callVars>>

\* ------------------------------------------------------ print_stream_errors

\* A faulty variant of PrintStreamErrors: the line is also put on the vision
\* queue as a sample.
PrintStreamErrorsToQueue ==
    /\ stderr_thread = "running"
    /\ vision_process \in {"running", "signalled"}
    /\ printed < MaxStderr
    /\ printed' = printed + 1
    /\ queue_obj' = [queue_obj EXCEPT ![vision_sensor] =
                        Append(@, [id |-> 0, value |-> 0])]
    /\ UNCHANGED <<pc, plot, vision_process, ser, thread, reads, csvfile, log,
                   on_disk, new_data_received, unwinding, exitReason, events,
                   inLine>>
    /\ UNCHANGED <<calVars, clock, utcoffset, last_plot_time, vision_data,
                   serial_data, drained_before, refreshes, stderr_thread,
                   callVars>>

\* Lines 75-76: one line of the worker's error stream is printed.
PrintStreamErrors ==
    /\ stderr_thread = "running"
    /\ vision_process \in {"running", "signalled"}
    /\ printed < MaxStderr
    /\ printed' = printed + 1
    /\ UNCHANGED <<logVars, calVars, clock, utcoffset, last_plot_time,
                   vision_data, serial_data, drained_before, refreshes,
                   stderr_thread,
                   callVars>>

\* Lines 75 and 77: readline() returns '' at the end of the worker's error
\* stream; the stream is closed and the thread ends.
StderrEOF ==
    /\ stderr_thread = "running"
    /\ vision_process \in {"exited", "reaped"}
    /\ stderr_thread' = "finished"
    /\ UNCHANGED <<logVars, calVars, clock, utcoffset, last_plot_time,
                   vision_data, serial_data, drained_before, refreshes, printed,
                   callVars>>

\* ---------------------------------------------------- the sliding windows

\* A faulty variant of DequeAppend: a full deque drops the new entry.
DequeAppendKeepOld(d, x) == IF Len(d) = maxlen THEN d ELSE Append(d, x)

\* deque.append on a deque with maxlen: a full deque drops its oldest entry.
DequeAppend(d, x) == IF Len(d) = maxlen THEN Append(Tail(d), x) ELSE Append(d, x)

\* The log file is buffered (io.DEFAULT_BUFFER_SIZE bytes): the few rows that
\* follow the header stay in the buffer; once earlier rows have filled it, a
\* write may spill any part of the buffered text to disk.
Spilled == IF drained_before = 0 THEN {"whole"} ELSE DiskStates

\* A faulty variant of GetNowaitItem: the newest sample is returned.
GetNowaitNewest(q) == q[Len(q)]

\* queue.get_nowait(): the item returned, the oldest.
GetNowaitItem(q) == Head(q)

\* Lines 185-189 and 200-204: the row written for a sample drained at the
\* reading `timestamp` of the coordinator's clock.
StampedRow(src, sample, timestamp) ==
    [timestamp |-> IsoLocal(timestamp), source |-> src, id |-> sample.id,
     measurement |-> sample.value]

\* Lines 191 and 206: the entry (timestamp, measurement) of a window.
Entry(sample, timestamp) ==
    [timestamp |-> timestamp, measurement |-> sample.value, id |-> sample.id]

\* Lines 190-192 and 205-207: the windows after the sample is appended to the
\* window of its source.
Windowed(src, entry) ==
    IF src = vision_sensor
    THEN vision_data' = DequeAppend(vision_data, entry) /\ UNCHANGED serial_data
    ELSE serial_data' = DequeAppend(serial_data, entry) /\ UNCHANGED vision_data

\* Lines 182-194 and 196-209: one non-blocking poll of a source's queue, with
\* the time stamp and the window of the live display.
Drain(src, next) ==
    /\ pc' = next
    /\ IF queue_obj[src] = <<>>
       THEN UNCHANGED <<queue_obj, log, on_disk, new_data_received,
                        vision_data, serial_data>>
       ELSE LET measurement == GetNowaitItem(queue_obj[src])
                timestamp == clock
            IN  /\ queue_obj' = [queue_obj EXCEPT ![src] = GetNowait(@)]
                /\ log' = Append(log, StampedRow(src, measurement, timestamp))
                /\ on_disk' \in Spilled
                /\ IF plot
                   THEN /\ Windowed(src, Entry(measurement, timestamp))
                        /\ new_data_received' = TRUE
                   ELSE UNCHANGED <<vision_data, serial_data, new_data_received>>
    /\ UNCHANGED <<plot, vision_process, ser, thread, reads, csvfile, unwinding,
                   exitReason, events, inLine>>
    /\ UNCHANGED <<calVars, clock, utcoffset, last_plot_time, drained_before,
                   refreshes, stderr_thread, printed,
                   callVars>>

DrainVision ==
    /\ pc = "poll_vision"
    /\ Drain(vision_sensor, "poll_serial")

DrainSerial ==
    /\ pc = "poll_serial"
    /\ Drain(ground_truth_serial, "plot")

\* Samples drained so far, of both sources.
Drained == 2 * drained_before + Len(log)

\* A faulty variant of Refresh: the throttle interval is not waited for.
RefreshNoThrottle ==
    /\ pc = "plot"
    /\ pc' = "check_worker"
    /\ LET now == clock
       IN  IF plot /\ new_data_received
           THEN /\ last_plot_time' = now
                /\ new_data_received' = FALSE
                /\ refreshes' = Append(refreshes, [now |-> now, drained |-> Drained])
           ELSE UNCHANGED <<last_plot_time, new_data_received, refreshes>>
    /\ UNCHANGED <<plot, vision_process, ser, thread, reads, queue_obj, csvfile,
                   log, on_disk, unwinding, exitReason, events, inLine>>
    /\ UNCHANGED <<calVars, clock, utcoffset, vision_data, serial_data,
                   drained_before, stderr_thread, printed, callVars>>

\* Lines 212-239: the display is redrawn from the windows when it is active,
\* new data has come and the throttle interval has passed.
Refresh ==
    /\ pc = "plot"
    /\ pc' = "check_worker"
    /\ LET now == clock
       IN  IF plot /\ new_data_received /\ now - last_plot_time > Throttle
           THEN /\ last_plot_time' = now
                /\ new_data_received' = FALSE
                /\ refreshes' = Append(refreshes, [now |-> now, drained |-> Drained])
           ELSE UNCHANGED <<last_plot_time, new_data_received, refreshes>>
    /\ UNCHANGED <<plot, vision_process, ser, thread, reads, queue_obj, csvfile,
                   log, on_disk, unwinding, exitReason, events, inLine>>
    /\ UNCHANGED <<calVars, clock, utcoffset, vision_data, serial_data,
                   drained_before, stderr_thread, printed, callVars>>

\* ------------------------------------------------ the loop's specification

\* The loop is modelled from its first iteration, or from a later one: the
\* samples drained before are the `drained_before` oldest of each source, one
\* of each source in every iteration, the i-th of them in iteration i.
EarlierCounts == {0, maxlen - 1}

\* The reading of the clock in iteration i of the earlier ones (the clock
\* reads 0 when the modelled part begins).
EarlierTime(n, i) == -((n - i) \div IterationsPerTick)

\* The window of a source after the n earlier iterations.
EarlierWindow(n) ==
    [i \in 1..n |-> [timestamp |-> EarlierTime(n, i), measurement |-> 0,
                     id |-> i - n - 1]]

\* Line 177: the reading of the clock when the loop was entered.
LoopStart(n) == IF n = 0 THEN 0 ELSE EarlierTime(n, 1)

\* The redraws of the earlier iterations: the first that the throttle allows.
EarlierRefreshes(n) ==
    IF n = 0 THEN <<>>
    ELSE LET now == LoopStart(n) + Throttle + 1
         IN  <<[now |-> now,
                drained |-> 2 * (CHOOSE i \in 1..n :
                                   /\ EarlierTime(n, i) = now
                                   /\ \A j \in 1..(i - 1) : EarlierTime(n, j) < now)]>>

\* The local zone: one without daylight saving time, or one in which it is in
\* force when the loop is entered.
Offsets == {0, Hour}

\* The loop at line 180, after `n` earlier iterations, in a zone of offset
\* `offset`, with the forwarding thread in the state `forwarding`.
LoopState(n, offset, forwarding) ==
    /\ pc = "poll_vision"
    /\ plot \in BOOLEAN
    /\ vision_process = "running"
    /\ ser = "open"
    /\ thread = [s \in Sources |-> "running"]
    /\ reads = [s \in Sources |-> 0]
    /\ queue_obj = [s \in Sources |-> <<>>]
    /\ csvfile = "open"
    /\ log = <<>>
    /\ on_disk = "whole"
    /\ unwinding = FALSE
    /\ exitReason = "none"
    /\ events = <<>>
    /\ inLine = <<>>
    /\ CalIdle
    /\ clock = 0
    /\ utcoffset = offset
    /\ drained_before = n
    /\ vision_data = IF plot THEN EarlierWindow(drained_before) ELSE "None"
    /\ serial_data = IF plot THEN EarlierWindow(drained_before) ELSE "None"
    /\ refreshes = IF plot THEN EarlierRefreshes(drained_before) ELSE <<>>
    /\ last_plot_time = IF refreshes = <<>> THEN LoopStart(drained_before)
                        ELSE refreshes[Len(refreshes)].now
    /\ new_data_received = (plot /\ drained_before > 0)
    /\ stderr_thread = forwarding
    /\ printed = 0
    /\ CallIdle

\* The lines the adapters read while the loop is modelled.
LoopLines == {<<"1">>}

\* The threads: the two adapters, the forwarding thread and the main loop.
InitThreads == LoopState(0, 0, "running")

NextThreads ==
    \/ \E src \in Sources, line \in LoopLines : AdapterStep(src, line)
    \/ PrintStreamErrors
    \/ Tick
    \/ DrainVision
    \/ DrainSerial
    \/ Refresh
    \/ CheckWorker

SpecThreads == InitThreads /\ [][NextThreads]_vars

\* The sliding windows: the loop from its first iteration or from a later one.
InitWindow == \E n \in EarlierCounts : LoopState(n, 0, "not_started")

NextWindow ==
    \/ \E src \in Sources, line \in LoopLines : AdapterStep(src, line)
    \/ DrainVision
    \/ DrainSerial
    \/ Refresh
    \/ CheckWorker

SpecWindow == InitWindow /\ [][NextWindow]_vars

\* The throttle: the clock and the display, in a zone without transitions.
InitClock == LoopState(0, 0, "not_started")

NextClock ==
    \/ \E src \in Sources, line \in LoopLines : AdapterStep(src, line)
    \/ Tick
    \/ DrainVision
    \/ DrainSerial
    \/ Refresh
    \/ CheckWorker

SpecClock == InitClock /\ [][NextClock]_vars

\* The time stamps: the clock and the local zone.
InitZone == \E offset \in Offsets : LoopState(0, offset, "not_started")

NextZone ==
    \/ \E src \in Sources, line \in LoopLines : AdapterStep(src, line)
    \/ Tick
    \/ ZoneTransition
    \/ DrainVision
    \/ DrainSerial
    \/ Refresh
    \/ CheckWorker

SpecZone == InitZone /\ [][NextZone]_vars

\* ------------------------------------------------------- claims: the loop

\* A step of the main thread: its position in main() changes.
MainThreadStep == pc' # pc

\* A step of src's adapter thread: it has read one more line.
AdapterThreadStep(src) ==
    /\ reads'[src] = reads[src] + 1
    /\ reads'[Other(src)] = reads[Other(src)]

\* A step of the forwarding thread: it has printed a line, or ended.
ForwardingThreadStep == printed' # printed \/ stderr_thread' # stderr_thread

\* The windows and the state of the display.
displayVars == <<vision_data, serial_data, last_plot_time, new_data_received,
                 refreshes>>

\* C21: each source queue is put on only by the adapter thread of its source
\* and taken from only by the main thread; rows are written to the log only
\* by the main thread; the sliding windows and the state of the display are
\* changed only by the main thread (which alone reads them, in its redraw);
\* a step of the forwarding thread changes no queue and not the log.
C21_OneProducerOneConsumer ==
    [][ /\ \A src \in Sources :
             /\ Len(queue_obj'[src]) > Len(queue_obj[src])
                => /\ AdapterThreadStep(src)
                   /\ ~MainThreadStep
                   /\ ~ForwardingThreadStep
             /\ Len(queue_obj'[src]) < Len(queue_obj[src])
                => /\ MainThreadStep
                   /\ reads' = reads
                   /\ ~ForwardingThreadStep
        /\ (log' # log \/ displayVars' # displayVars)
           => /\ MainThreadStep
              /\ reads' = reads
              /\ ~ForwardingThreadStep
        /\ ForwardingThreadStep
           => /\ queue_obj' = queue_obj
              /\ log' = log
              /\ displayVars' = displayVars
              /\ ~MainThreadStep
      ]_vars

\* C21's case: both adapters have put a sample, the main thread has drained
\* and logged both and redrawn the display, and the forwarding thread has
\* printed a line of the worker's error stream.
C21_Witness ==
    /\ plot
    /\ Len(RowsOf(vision_sensor)) >= 1
    /\ Len(RowsOf(ground_truth_serial)) >= 1
    /\ refreshes # <<>>
    /\ printed >= 1

\* Whether the arrival numbers of a sequence of samples or rows increase.
InArrivalOrder(seq) ==
    \A i, j \in 1..Len(seq) : i < j => seq[i].id < seq[j].id

\* C28: under every interleaving of the adapters and the loop, the rows of a
\* source are in the log in the order in which its adapter put the samples on
\* the queue, and every sample still on the queue was put after them.
C28_PerSourceFifo ==
    \A src \in Sources : InArrivalOrder(RowsOf(src) \o queue_obj[src])

\* C28's case: the serial sample that arrived second was logged before the
\* vision sample that arrived first, and two vision samples are in the log in
\* their order of arrival.
C28_Witness ==
    /\ Len(log) = 3
    /\ <<log[1].id, log[2].id, log[3].id>> = <<2, 1, 3>>
    /\ <<log[1].source, log[2].source, log[3].source>> =
          <<ground_truth_serial, vision_sensor, vision_sensor>>

\* The window of a source.
WindowOf(src) == IF src = vision_sensor THEN vision_data ELSE serial_data

\* The samples of a sequence of rows or window entries: arrival number and value.
SamplesIn(seq) == [i \in 1..Len(seq) |-> <<seq[i].id, seq[i].measurement>>]

\* The last n elements of a sequence (all of it when it is shorter).
LastN(seq, n) ==
    IF Len(seq) <= n THEN seq ELSE SubSeq(seq, Len(seq) - n + 1, Len(seq))

\* The samples of src drained so far, in drain order: the earlier ones, then
\* those of its rows in the log.
DrainedOf(src) ==
    SamplesIn(EarlierWindow(drained_before)) \o SamplesIn(RowsOf(src))

\* The arrival numbers of the samples put on a queue so far (every line of
\* LoopLines holds a value).
Arrived == 1..Arrivals

Previous(i) ==
    IF i = 1 THEN [now |-> LoopStart(drained_before), drained |-> 0]
    ELSE refreshes[i - 1]

\* C23: the display is redrawn only by a step of the loop at line 213 taken
\* with the display active, a sample drained since the last redraw
\* (new_data_received) and more than the throttle interval past since the last
\* redraw (or since the loop was entered); hence each redraw comes more than
\* the throttle interval after the one before it, with at least one sample
\* drained in between.
C23_RefreshThrottled ==
    /\ [][ refreshes' # refreshes =>
             /\ pc = "plot"
             /\ plot
             /\ new_data_received
             /\ clock - last_plot_time > Throttle
             /\ last_plot_time' = clock
             /\ ~new_data_received'
             /\ Len(refreshes') = Len(refreshes) + 1
         ]_vars
    /\ [](\A i \in 1..Len(refreshes) :
             /\ refreshes[i].now - Previous(i).now > Throttle
             /\ refreshes[i].drained > Previous(i).drained)

\* C23's case: the display has been redrawn twice.
C23_Witness ==
    /\ Len(refreshes) = 2
    /\ Len(log) >= 2

\* C29 (the claim as stated): the time stamps of the log do not decrease in
\* row order, across both sources, while the coordinator's clock does not go
\* backwards (in the model it never does).
C29_TimestampsNonDecreasing ==
    \A i, j \in 1..Len(log) : i < j => log[i].timestamp <= log[j].timestamp

\* The rest of C29: a row is written by the step that takes its sample from a
\* queue, its time stamp is the local form of the coordinator's clock as read
\* in that step, and its source is the source of that queue.
StampedAtDrain ==
    [][ log' # log =>
          \E src \in Sources :
             /\ queue_obj[src] # <<>>
             /\ queue_obj' = [queue_obj EXCEPT ![src] = Tail(@)]
             /\ log' = Append(log, [timestamp |-> IsoLocal(clock),
                                    source |-> src,
                                    id |-> Head(queue_obj[src]).id,
                                    measurement |-> Head(queue_obj[src]).value])
      ]_vars

\* The clock's readings themselves, as kept in the windows of the display, do
\* not decrease from one entry of a window to the next.
ReadingsNonDecreasing ==
    plot => \A src \in Sources :
               \A i, j \in 1..Len(WindowOf(src)) :
                  i < j => WindowOf(src)[i].timestamp <= WindowOf(src)[j].timestamp

\* =================================== calibrate_speed.py: analyse_frequencies
\* The spectra of lines 19-34.  A series is a sequence of rows with a
\* timestamp (ns) and a measurement.  The discrete Fourier transform is
\* computed exactly, over the Gaussian integers, which the series lengths of
\* SeriesLengths allow: the terms of np.fft.fft(x)[:N // 2] are sums of the
\* x[n] times powers of -i.

\* --------------------------------------------------------------- bounds

\* Series passed in one call.
MaxSeries == 2

\* ------------------------------------------------------------ the inputs

\* Lengths of the series: none, one (fewer than 2 samples), and more.
SeriesLengths == {0, 1, 2, 3, 4}

\* The measurements of a series.
SeriesValues == {0, 1}

\* The interval between the timestamps of a series, in ns: none (all the rows
\* carry one timestamp) or 0.1 s.
SeriesSteps == {0, 100000000}

SeriesOf(n, step, vals) ==
    [i \in 1..n |-> [timestamp |-> 100000000 + (i - 1) * step,
                     measurement |-> vals[i]]]

AllSeries ==
    {SeriesOf(n, step, vals) :
        n \in SeriesLengths, step \in SeriesSteps, vals \in [1..4 -> SeriesValues]}

\* ----------------------------------------------------------------- numpy

\* exp(-2 pi i m / N), for the m and N at which it is a power of -i.
Twiddle(N, m) ==
    LET q == (4 * (m % N)) \div N
    IN  CASE q = 0 -> [re |-> 1, im |-> 0]
          [] q = 1 -> [re |-> 0, im |-> -1]
          [] q = 2 -> [re |-> -1, im |-> 0]
          [] q = 3 -> [re |-> 0, im |-> 1]

RECURSIVE FftTerm(_, _, _)
\* The sum over the first n samples of x[j] * exp(-2 pi i k (j - 1) / N).
FftTerm(x, kk, n) ==
    IF n = 0 THEN [re |-> 0, im |-> 0]
    ELSE LET rest == FftTerm(x, kk, n - 1)
             w == Twiddle(Len(x), kk * (n - 1))
         IN  [re |-> rest.re + x[n] * w.re, im |-> rest.im + x[n] * w.im]

\* np.fft.fft(x)[:count]
FftHead(x, count) == [i \in 1..count |-> FftTerm(x, i - 1, Len(x))]

\* coef * np.abs(z): the number coef * sqrt(root_of), kept exactly.
ScaledAbs(coef, z) == [coef |-> coef, root_of |-> z.re * z.re + z.im * z.im]

\* np.fft.fftfreq(N, d)[:count], count <= N // 2: the values j / (N * d);
\* with d = 0.0 numpy's 1.0 / (N * d) is inf, and 0 * inf is nan.
FftFreqHead(N, span, count) ==
    [i \in 1..count |->
        IF span = 0 THEN (IF i = 1 THEN NaN ELSE Inf)
        ELSE FracMul(Frac((i - 1) * (N - 1), N), Frac(NS, span))]

\* ----------------------------------------------------- analyse_frequencies

\* A faulty variant of Analysis: a short series gets a spectrum of one point.
AnalysisOfShortToo(data) ==
    LET N == Len(data)
        span == IF N = 0 THEN 0 ELSE data[N].timestamp - data[1].timestamp
        count == IF N < 2 THEN 1 ELSE N \div 2
        measurements == IF N = 0 THEN <<0>> ELSE Column(data, "measurement")
        fft == FftHead(measurements, count)
    IN  <<FftFreqHead(N, span, count),
          [i \in 1..count |-> ScaledAbs(Frac(2, IF N = 0 THEN 1 ELSE N), fft[i])]>>

\* Lines 23-34: the entry [x_freq, y_freq] appended for one series.  The
\* sample spacing is (timestamps_s[-1] - timestamps_s[0]) / (N - 1).
Analysis(data) ==
    LET N == Len(data)
    IN  IF N < 2 THEN <<<<>>, <<>>>>
        ELSE LET span == data[N].timestamp - data[1].timestamp
                 measurements == Column(data, "measurement")
                 fft == FftHead(measurements, N \div 2)
             IN  <<FftFreqHead(N, span, N \div 2),
                   [i \in 1..(N \div 2) |-> ScaledAbs(Frac(2, N), fft[i])]>>

\* Lines 21-34: the loop over the series.
Analyses(frames) == [i \in 1..Len(frames) |-> Analysis(frames[i])]

\* Lines 19-43: a call with one label for each series.  Nothing in the
\* function raises for series of these lengths.
AnalyseFrequencies ==
    /\ cal_pc = "analyse_frequencies"
    /\ cal_pc' = "returned"
    /\ analyses' = Analyses(dataframes)
    /\ UNCHANGED <<cal_error, side, warm_up, raw_data, vision_interpolated,
                   ground_truth, k, fs, errors, best_params,
                   accepted_optimised_params, config, config_json, answers>>
    /\ UNCHANGED <<logVars, loopVars, dataframes, workerVars, angleVars, detectVars>>

InitSpectrum ==
    /\ cal_pc = "analyse_frequencies"
    /\ cal_error = "none"
    /\ NoLog
    /\ NoSeries
    /\ NoFit
    /\ NoSearch
    /\ NoConfig
    /\ LogIdle
    /\ LoopIdle
    /\ dataframes \in SeqsUpTo(AllSeries, MaxSeries)
    /\ analyses = <<>>
    /\ WorkerIdle
    /\ AngleIdle
    /\ DetectIdle

NextSpectrum == AnalyseFrequencies

SpecSpectrum == InitSpectrum /\ [][NextSpectrum]_vars

\* ------------------------------------------------------------ claim C24

\* The sum of the measurements of a series.
Total(data) == Sum(Column(data, "measurement"), Len(data))

\* C24: a call of analyse_frequencies does not raise; it yields one spectrum
\* for each series, in the order of the series; the spectrum of a series of
\* fewer than 2 samples is empty (no frequencies, no magnitudes), and the
\* spectrum of every other series is the one computed for that series alone:
\* N // 2 frequencies and magnitudes, the first magnitude 2/N times the
\* absolute value of the sum of its measurements.
C24_ShortSeriesEmptySpectrum ==
    /\ cal_pc # "raised"
    /\ cal_pc = "returned" =>
          /\ Len(analyses) = Len(dataframes)
          /\ \A i \in 1..Len(dataframes) :
                LET data == dataframes[i]
                    N == Len(data)
                IN  IF N < 2
                    THEN analyses[i] = <<<<>>, <<>>>>
                    ELSE /\ analyses[i] = Analyses(<<data>>)[1]
                         /\ Len(analyses[i][1]) = N \div 2
                         /\ Len(analyses[i][2]) = N \div 2
                         /\ analyses[i][2][1] =
                               [coef |-> Frac(2, N),
                                root_of |-> Total(data) * Total(data)]

\* C24's case: a call with a series of one sample and a series of four
\* samples has returned: the first spectrum is empty, the second has two
\* points and its second magnitude is not zero.
C24_Witness ==
    /\ cal_pc = "returned"
    /\ Len(dataframes) = 2
    /\ Len(dataframes[1]) = 1
    /\ Len(dataframes[2]) = 4
    /\ analyses[1] = <<<<>>, <<>>>>
    /\ Len(analyses[2][2]) = 2
    /\ analyses[2][2][2].root_of = 2

-----------------------------------------------------------------------------
\* src/main.py: the vision worker, from its command line to its first frame.

\* The longest command line tried.
MaxArgs == 3

\* What config.get('camera_fps', 30) gives with no such key in config.json.
camera_fps == 30

\* The words a command line is made of.
ArgWords == {"--side", "--output", "--no-ui", "left", "right", "windspeed", "angle"}

\* The choices add_argument declares for the options that take a value
\* (lines 20-21).
Choices == ("--side" :> {"left", "right"}) @@ ("--output" :> {"angle", "windspeed"})

\* The namespace before any argument is read: no side, no output, the user
\* interface on.
Defaults == [side |-> "None", output |-> "None", no_ui |-> FALSE]

Dest(option) == IF option = "--side" THEN "side" ELSE "output"

\* parser.parse_args() on the arguments rest, with ns read so far: the
\* namespace, or UsageError where argparse prints its usage and exits with
\* status 2: an option without its value, a value outside the choices, a word
\* that is no option, or --side (required=True) not given.
UsageError == [status |-> 2]

IsUsageError(ns) == "status" \in DOMAIN ns

RECURSIVE ParseArgsFrom(_, _)
ParseArgsFrom(rest, ns) ==
    IF rest = <<>>
    THEN IF ns.side = "None" THEN UsageError ELSE ns
    ELSE IF Head(rest) = "--no-ui"
    THEN ParseArgsFrom(Tail(rest), [ns EXCEPT !.no_ui = TRUE])
    ELSE IF Head(rest) \in DOMAIN Choices
    THEN IF Len(rest) < 2 \/ rest[2] \notin Choices[Head(rest)]
         THEN UsageError
         ELSE ParseArgsFrom(Tail(Tail(rest)),
                            [ns EXCEPT ![Dest(Head(rest))] = rest[2]])
    ELSE UsageError

ParseArgs(line) == ParseArgsFrom(line, Defaults)

\* Lines 19-23: the arguments are parsed, and the process exits with status 2
\* when they are not accepted.
ParseArguments ==
    /\ worker_pc = "parse_args"
    /\ args' = ParseArgs(argv)
    /\ IF IsUsageError(args')
       THEN worker_pc' = "exited" /\ worker_error' = "SystemExit(2)"
       ELSE worker_pc' = "load_config" /\ UNCHANGED worker_error
    /\ UNCHANGED <<argv, worker_config, sos, frame_angles, stdout>>
    /\ UNCHANGED <<logVars, calVars, loopVars, spectrumVars, angleVars, detectVars>>

\* What stands for config.json when there is no such file.
NoFile == "no such file" :> TRUE

\* Lines 26-27 and the reads of lines 30-49: config.json is opened and loaded;
\* without the file open() raises FileNotFoundError.
LoadConfig ==
    /\ worker_pc = "load_config"
    /\ IF worker_config = NoFile
       THEN worker_pc' = "raised" /\ worker_error' = "FileNotFoundError"
       ELSE worker_pc' = "camera" /\ UNCHANGED worker_error
    /\ UNCHANGED <<argv, args, worker_config, sos, frame_angles, stdout>>
    /\ UNCHANGED <<logVars, calVars, loopVars, spectrumVars, angleVars, detectVars>>

\* The parameters Camera.__init__ takes besides self (src/camera.py, line 15).
CameraParameters == {"camera_index"}

\* The keyword arguments of the call Camera(camera_index, fps=camera_fps).
CameraKeywords == {"fps"}

\* Line 52: the camera object is constructed; a keyword the constructor does
\* not take raises TypeError, which nothing catches (the try of line 73
\* starts later).
ConstructCamera ==
    /\ worker_pc = "camera"
    /\ IF CameraKeywords \subseteq CameraParameters
       THEN worker_pc' = "serial" /\ UNCHANGED worker_error
       ELSE worker_pc' = "raised" /\ worker_error' = "TypeError"
    /\ UNCHANGED <<argv, args, worker_config, sos, frame_angles, stdout>>
    /\ UNCHANGED <<logVars, calVars, loopVars, spectrumVars, angleVars, detectVars>>

\* base_cmd after "src.main" (datalogger.py, line 118), and with --no-ui
\* (line 124): the two command lines vision_process_cmd can return.
base_cmd == <<"--output", "windspeed">>

SpawnCommands == {base_cmd, base_cmd \o <<"--no-ui">>}

\* The filter entries of one side in config.json: none, one without its
\* cutoff, one that butter accepts and one whose cutoff is not below half the
\* frame rate.
WorkerFilterEntries ==
    {<<>>, "order" :> 4, FilterEntry(4, 5), FilterEntry(4, 20)}

\* config.json as the worker may find it: without the butterworth_filter key,
\* or with entries for some of the sides.
WorkerConfigs ==
    {<<>>} \cup {"butterworth_filter" :> f :
                    f \in UNION {[D -> WorkerFilterEntries] : D \in SUBSET Sides}}

WorkerStart(line, cfg) ==
    /\ CalIdle
    /\ LogIdle
    /\ LoopIdle
    /\ SpectrumIdle
    /\ AngleIdle
    /\ DetectIdle
    /\ worker_pc = "parse_args"
    /\ worker_error = "None"
    /\ argv = line
    /\ args = "None"
    /\ worker_config = cfg
    /\ sos = "None"
    /\ frame_angles = <<>>
    /\ stdout = <<>>

InitWorker ==
    \E line \in SeqsUpTo(ArgWords, MaxArgs), cfg \in WorkerConfigs \cup {NoFile} :
        WorkerStart(line, cfg)

NextWorker == ParseArguments \/ LoadConfig \/ ConstructCamera

SpecWorker == InitWorker /\ [][NextWorker]_vars

\* C30: a worker started with a command line the data logger builds does not
\* end during its start-up (argument parsing, configuration, camera), so that
\* it enters its measurement loop.
C30_SpawnedWorkerStarts ==
    argv \in SpawnCommands => worker_pc \notin {"exited", "raised"}

\* No command line at all brings the worker to line 56: with --side it gets
\* past the parser and stops at the camera's constructor.
WorkerNeverStarts == worker_pc # "serial"

\* Only a command line that names a side gets past the parser.
ParsedOnlyWithSide ==
    worker_pc \in {"load_config", "camera", "raised"}
        => \E i \in 1..Len(argv) : argv[i] = "--side"

-----------------------------------------------------------------------------
\* src/main.py: the worker's filter and its measurement loop (lines 63-136),
\* for a worker whose command line was accepted and whose camera is open.

\* The most frames one run reads.
MaxFrames == 3

\* angle at line 94 when no angle was obtained in the frame.
NoAngle == <<>>

\* angle at line 94: none (a ball or the rod was not found), or the degrees
\* that calculate_angle or calculate_rod_angle returned.
FrameAngles == {NoAngle, <<0>>, <<45>>}

\* The namespaces parse_args can return.
Namespaces == [side : Sides, output : {"None", "angle", "windspeed"}, no_ui : BOOLEAN]

\* A command line that parse_args turns into the namespace ns.
CommandLine(ns) ==
    <<"--side", ns.side>>
        \o (IF ns.output = "None" THEN <<>> ELSE <<"--output", ns.output>>)
        \o (IF ns.no_ui THEN <<"--no-ui">> ELSE <<>>)

\* filter_params of line 48.
FilterParams == Part(Part(worker_config, "butterworth_filter"), args.side)

\* signal.butter(order, cutoff_hz, 'low', fs=camera_fps) accepts a cutoff
\* strictly between 0 and half the sample rate.
ButterAccepts(cutoff_hz) == 0 < cutoff_hz /\ 2 * cutoff_hz < camera_fps

\* Lines 63-67: sos stays None when the side has no filter entry, or an
\* empty one; otherwise the filter is designed from the entry, which raises
\* KeyError when a key is missing and ValueError when butter rejects the
\* cutoff.
InitFilter ==
    /\ worker_pc = "filter"
    /\ IF FilterParams = <<>>
       THEN worker_pc' = "loop" /\ UNCHANGED <<sos, worker_error>>
       ELSE IF {"order", "cutoff_hz"} \ DOMAIN FilterParams # {}
       THEN worker_pc' = "raised" /\ worker_error' = "KeyError" /\ UNCHANGED sos
       ELSE IF ~ButterAccepts(FilterParams["cutoff_hz"])
       THEN worker_pc' = "raised" /\ worker_error' = "ValueError" /\ UNCHANGED sos
       ELSE worker_pc' = "loop" /\ sos' = "sos" /\ UNCHANGED worker_error
    /\ UNCHANGED <<argv, args, worker_config, frame_angles, stdout>>
    /\ UNCHANGED <<logVars, calVars, loopVars, spectrumVars, angleVars, detectVars>>

\* Lines 95-99: whether smoothed_wind_speed is set in a frame.
Smoothed(a, filter) == a # NoAngle /\ filter # "None"

\* Lines 109-118: what is printed for a frame, nothing (<<>>) in the windspeed
\* mode unless smoothed_wind_speed was set.
ConsoleOutput(output, a, filter) ==
    IF output = "angle" /\ a # NoAngle THEN <<"angle">>
    ELSE IF output = "windspeed" /\ Smoothed(a, filter) THEN <<"windspeed">>
    ELSE <<>>

\* Lines 75-126 for a frame that is read, with the angle a obtained in it:
\* the value is printed where lines 109-118 say so, and with the user
\* interface on the loop ends when handle_input sees the q key.
Frame(a, quit) ==
    /\ worker_pc = "loop"
    /\ Len(frame_angles) < MaxFrames
    /\ args.no_ui => ~quit
    /\ frame_angles' = Append(frame_angles, a)
    /\ stdout' = IF ConsoleOutput(args.output, a, sos) = <<>> THEN stdout
                 ELSE Append(stdout, [frame |-> Len(frame_angles) + 1,
                                      value |-> ConsoleOutput(args.output, a, sos)[1]])
    /\ worker_pc' = IF quit THEN "exited" ELSE "loop"
    /\ UNCHANGED <<worker_error, argv, args, worker_config, sos>>
    /\ UNCHANGED <<logVars, calVars, loopVars, spectrumVars, angleVars, detectVars>>

ProcessFrame == \E a \in FrameAngles, quit \in BOOLEAN : Frame(a, quit)

\* Lines 75-77 and 130-136: read_frame fails, the loop ends and main returns.
ReadFails ==
    /\ worker_pc = "loop"
    /\ worker_pc' = "exited"
    /\ UNCHANGED <<worker_error, argv, args, worker_config, sos, frame_angles, stdout>>
    /\ UNCHANGED <<logVars, calVars, loopVars, spectrumVars, angleVars, detectVars>>

InitFrames ==
    \E ns \in Namespaces, cfg \in WorkerConfigs :
        /\ CalIdle
        /\ LogIdle
        /\ LoopIdle
        /\ SpectrumIdle
        /\ AngleIdle
        /\ DetectIdle
        /\ worker_pc = "filter"
        /\ worker_error = "None"
        /\ argv = CommandLine(ns)
        /\ args = ns
        /\ worker_config = cfg
        /\ sos = "None"
        /\ frame_angles = <<>>
        /\ stdout = <<>>

NextFrames == InitFilter \/ ProcessFrame \/ ReadFails

SpecFrames == InitFrames /\ [][NextFrames]_vars

\* The frames of the run for which a value was printed.
PrintedFrames == {stdout[j].frame : j \in 1..Len(stdout)}

\* The frames of the run in which an angle was obtained.
MeasuredFrames == {i \in 1..Len(frame_angles) : frame_angles[i] # NoAngle}

PrintsWhenItCan ==
    /\ PrintedFrames \subseteq MeasuredFrames
    /\ (args.output = "angle" \/ (args.output = "windspeed" /\ sos # "None"))
            => PrintedFrames = MeasuredFrames

\* Without a filter entry for its side the windspeed mode prints nothing.
SilentWithoutFilter ==
    (args.output = "windspeed" /\ sos = "None") => stdout = <<>>

\* The command line of a run gives its namespace.
ParsedAsGiven == ParseArgs(argv) = args

-----------------------------------------------------------------------------
\* src/calculation.py: calculate_angle.

\* The largest pixel coordinate of a centre.
MaxCoord == 4

Coords == 0..MaxCoord

\* The centres of a ball: (x, y), x to the right and y downwards.
Centers == Coords \X Coords

\* arctan(num / den) in thousandths of a degree for 0 <= num <= den, den > 0,
\* by 45 t + 15.642 t (1 - t) with t = num / den: exact at t = 0 and t = 1 and
\* within a quarter of a degree of numpy's value between them.
ArctanUnit(num, den) ==
    (45000 * num * den + 15642 * num * (den - num)) \div (den * den)

\* The angle of the direction (a, b) with a >= 0 and b >= 0, not both 0, from
\* the b axis: between 0 and 90 degrees.
ArctanQuadrant(a, b) ==
    IF a <= b THEN ArctanUnit(a, b) ELSE 90000 - ArctanUnit(b, a)

\* np.degrees(np.arctan2(y, x)) in thousandths of a degree: the angle of the
\* direction (x, y) from the positive x axis, with the sign of y; 0 for
\* (0, 0) and 180 for y = 0 with x < 0.
Arctan2Degrees(y, x) ==
    IF y = 0 THEN (IF x >= 0 THEN 0 ELSE 180000)
    ELSE LET size == IF x >= 0 THEN ArctanQuadrant(Abs(y), x)
                     ELSE 180000 - ArctanQuadrant(Abs(y), -x)
         IN  IF y > 0 THEN size ELSE -size

\* The same with the arguments of arctan2 exchanged.
CalculateAngleFromHorizontal(pivot_ball_center, moving_ball_center) ==
    LET dx == moving_ball_center[1] - pivot_ball_center[1]
        dy == moving_ball_center[2] - pivot_ball_center[2]
    IN  Arctan2Degrees(dy, dx)

\* calculate_angle (lines 3-23).
calculate_angle(pivot_ball_center, moving_ball_center) ==
    LET dx == moving_ball_center[1] - pivot_ball_center[1]
        dy == moving_ball_center[2] - pivot_ball_center[2]
    IN  Arctan2Degrees(dx, dy)

\* One call of calculate_angle.
CalculateAngle ==
    /\ angle_degrees = <<>>
    /\ angle_degrees' = <<calculate_angle(pivot_center, moving_center)>>
    /\ UNCHANGED <<pivot_center, moving_center>>
    /\ UNCHANGED <<logVars, calVars, loopVars, spectrumVars, workerVars, detectVars>>

InitAngle ==
    /\ CalIdle
    /\ LogIdle
    /\ LoopIdle
    /\ SpectrumIdle
    /\ WorkerIdle
    /\ DetectIdle
    /\ pivot_center \in Centers
    /\ moving_center \in Centers
    /\ angle_degrees = <<>>

NextAngle == CalculateAngle

SpecAngle == InitAngle /\ [][NextAngle]_vars

\* C26: the angle calculate_angle returns is 0 with the moving ball directly
\* below the pivot, positive with it to the right and negative with it to the
\* left, 90 or -90 degrees with it level with the pivot, and 45 or -45
\* degrees with it as far to the side as it is below.
C26_AngleFromDownwardVertical ==
    angle_degrees # <<>> =>
        LET dx == moving_center[1] - pivot_center[1]
            dy == moving_center[2] - pivot_center[2]
            a  == angle_degrees[1]
        IN  /\ (dx = 0 /\ dy > 0) => a = 0
            /\ dx > 0 => a > 0
            /\ dx < 0 => a < 0
            /\ (dy = 0 /\ dx > 0) => a = 90000
            /\ (dy = 0 /\ dx < 0) => a = -90000
            /\ (dy > 0 /\ dx = dy) => a = 45000
            /\ (dy > 0 /\ dx = -dy) => a = -45000

\* A call with the moving ball below and to the left, at 45 degrees.
C26_Witness ==
    /\ pivot_center = <<2, 1>>
    /\ moving_center = <<0, 3>>
    /\ angle_degrees = <<-45000>>

\* The angle grows with the deflection: of two balls at the same depth below
\* the pivot, the one further to the right has the larger angle.
AngleGrowsWithDeflection ==
    angle_degrees # <<>> =>
        \A other \in Centers :
            (other[2] = moving_center[2] /\ other[2] > pivot_center[2]
                /\ other[1] > moving_center[1])
                => calculate_angle(pivot_center, other) > angle_degrees[1]

-----------------------------------------------------------------------------
\* src/detection.py: find_ball.

\* The size of the image in pixels.
Width == 11
Height == 3

Pixels == (0..(Width - 1)) \X (0..(Height - 1))

\* Python values, with their types.
PyNone == [type |-> "NoneType"]

PyInt(n) == [type |-> "int", value |-> n]

PyTuple(items) == [type |-> "tuple", value |-> items]

PyArray(pixels) == [type |-> "ndarray", value |-> pixels]

\* How far the 5 x 5 kernel of line 29 reaches from its anchor in so many
\* iterations: iterating a square kernel is applying one that much larger.
Reach(iterations) == 2 * iterations

UnderKernel(p, q, iterations) ==
    /\ Abs(p[1] - q[1]) <= Reach(iterations)
    /\ Abs(p[2] - q[2]) <= Reach(iterations)

\* cv2.erode: a pixel stays when every pixel of the image under the kernel is
\* set (what lies beyond the border does not erode).
Erode(mask, iterations) ==
    {p \in Pixels : \A q \in Pixels : UnderKernel(p, q, iterations) => q \in mask}

\* cv2.dilate: a pixel is set when some pixel under the kernel is.
Dilate(mask, iterations) ==
    {p \in Pixels : \E q \in Pixels : UnderKernel(p, q, iterations) /\ q \in mask}

\* Lines 30-31: two iterations of erosion, then two of dilation.
Opened(mask) == Dilate(Erode(mask, 2), 2)

\* The rectangle of pixels from column x0 to x1 and from row y0 to y1.
Rectangle(x0, x1, y0, y1) ==
    {p \in Pixels : x0 <= p[1] /\ p[1] <= x1 /\ y0 <= p[2] /\ p[2] <= y1}

Rectangles ==
    {Rectangle(x0, x1, y0, y1) :
        x0 \in 0..(Width - 1), x1 \in 0..(Width - 1),
        y0 \in 0..(Height - 1), y1 \in 0..(Height - 1)}

Least(S) == CHOOSE n \in S : \A m \in S : n <= m

Greatest(S) == CHOOSE n \in S : \A m \in S : m <= n

Columns(mask) == {p[1] : p \in mask}

Rows(mask) == {p[2] : p \in mask}

\* cv2.moments of the outer contour of a rectangular mask, whose corners lie
\* on the centres of the corner pixels: the area, and the first moments
\* doubled.
Moments(mask) ==
    LET x0 == Least(Columns(mask))
        x1 == Greatest(Columns(mask))
        y0 == Least(Rows(mask))
        y1 == Greatest(Rows(mask))
        m00 == (x1 - x0) * (y1 - y0)
    IN  [m00 |-> m00, m10_twice |-> m00 * (x0 + x1), m01_twice |-> m00 * (y0 + y1)]

\* Lines 36-50: (None, mask) without a contour or with one of no area,
\* otherwise ((center_x, center_y), mask).
Return(mask) ==
    IF mask = {} THEN PyTuple(<<PyNone, PyArray(mask)>>)
    ELSE IF Moments(mask).m00 = 0 THEN PyTuple(<<PyNone, PyArray(mask)>>)
    ELSE PyTuple(<<PyTuple(<<PyInt(Moments(mask).m10_twice \div (2 * Moments(mask).m00)),
                             PyInt(Moments(mask).m01_twice \div (2 * Moments(mask).m00))>>),
                   PyArray(mask)>>)

\* find_ball (lines 17-50) on an image whose pixels within the range are
\* pixels.
find_ball(pixels) == Return(Opened(pixels))

\* One call of find_ball.
FindBall ==
    /\ found = <<>>
    /\ found' = <<find_ball(in_range)>>
    /\ UNCHANGED in_range
    /\ UNCHANGED <<logVars, calVars, loopVars, spectrumVars, workerVars, angleVars>>

\* Images with nothing within the range, or with one rectangular region.
InitDetect ==
    /\ CalIdle
    /\ LogIdle
    /\ LoopIdle
    /\ SpectrumIdle
    /\ WorkerIdle
    /\ AngleIdle
    /\ in_range \in Rectangles \cup {{}}
    /\ found = <<>>

NextDetect == FindBall

SpecDetect == InitDetect /\ [][NextDetect]_vars

\* The centre of a region: the middle of its columns and of its rows.
CenterOf(region) ==
    <<(Least(Columns(region)) + Greatest(Columns(region))) \div 2,
      (Least(Rows(region)) + Greatest(Rows(region))) \div 2>>

\* C27: what find_ball returns is None when no pixel of the image is within
\* the range, and otherwise the centre of the region, x in element [0] and y
\* in element [1].
C27_NoneOrCenter ==
    found # <<>> =>
        IF in_range = {} THEN found[1] = PyNone
        ELSE found[1] = PyTuple(<<PyInt(CenterOf(in_range)[1]),
                                  PyInt(CenterOf(in_range)[2])>>)

\* What find_ball does return: always a pair, whose element [1] is the mask
\* after the opening and whose element [0] is None when the opening leaves
\* nothing of the region, and otherwise the centre of the region as a pair
\* (x, y).
ReturnsCenterAndMask ==
    found # <<>> =>
        /\ found[1].type = "tuple"
        /\ Len(found[1].value) = 2
        /\ found[1].value[2] = PyArray(Opened(in_range))
        /\ Opened(in_range) \in {{}, in_range}
        /\ IF Opened(in_range) = {} THEN found[1].value[1] = PyNone
           ELSE found[1].value[1] = PyTuple(<<PyInt(CenterOf(in_range)[1]),
                                              PyInt(CenterOf(in_range)[2])>>)

\* A region within the range that the opening removes: element [0] is None
\* although the image has pixels within the range.
SmallRegionIsLost ==
    /\ in_range = Rectangle(4, 6, 0, 2)
    /\ found = <<PyTuple(<<PyNone, PyArray({})>>)>>

\* A region that is found, with its centre.
RegionIsFound ==
    /\ in_range = Rectangle(1, 9, 0, 2)
    /\ found # <<>>
    /\ found[1].value[1] = PyTuple(<<PyInt(5), PyInt(1)>>)

====
